---- MODULE Spec2Model ----
(***************************************************************************)
(* A model of the IB question bank (nami7777/IBPP): the IndexedDB record   *)
(* store of src/utils/db.ts, the App component's handlers and derived data *)
(* (src/App.tsx), the auto-tag rule of the topic tagger modal and the      *)
(* create/edit form's submission.                                          *)
(*                                                                         *)
(* Strings of the program are TLA+ strings.  A Question is a TLA+ record;  *)
(* an optional field that is absent in the JavaScript object is absent     *)
(* from the record's DOMAIN.  Date.now().toString() identifiers are the    *)
(* clock readings themselves (naturals below 10, whose decimal strings     *)
(* order as the numbers do).  A year, number | 'Unknown' in the program,   *)
(* is the string of its decimal numeral, "Unknown", or "NaN" for the       *)
(* not-a-number value; no year of the program is a numeric string.         *)
(***************************************************************************)
EXTENDS Integers, Sequences, FiniteSets, TLC

(***************************************************************************)
(* Bounds of the model.                                                    *)
(***************************************************************************)
\* identifiers (clock readings) range over 1..MaxId
MaxId == 2
\* longest batch handed to bulkUpdateQuestions by the API-level callers
MaxBatch == 2
\* most store operations the App's handlers have in flight at once
MaxInflight == 2
\* most handleAutoTag calls, and most handleSaveQuestion calls, in flight at once
MaxApplies == 1
MaxSaves == 1
\* ids of the records an earlier session stored, and the last clock value
MaxStoredId == 1
MaxClock == 3

\* most parts the form holds
MaxParts == 3

\* keyword tags the filter is exercised with (the first of KeywordPool)
MaxKeywords == 4
\* most keywords on one record drawn for the filter
MaxRecordKeywords == 3

(***************************************************************************)
(* Program constants (src/utils/db.ts, lines 4-6).                         *)
(***************************************************************************)
DB_VERSION == 1
STORE_NAME == "questions"

VARIABLES
  dbVersion,         \* on-disk version of IBQuestionBankDB, 0 = never opened
  objectStoreNames,  \* db.objectStoreNames
  store,             \* committed contents of the `questions` object store
  inflight,          \* store operations called and not yet settled, oldest first
  lastResult,        \* what the most recently settled operation reported, and
                     \* what the engine did to it
  questions,         \* App state: the in-memory records, a sequence
  searchQuery,
  includedKeywords,
  excludedKeywords,
  includedTopics,
  excludedTopics,
  selectedPaperType,
  selectedYear,
  selectedDifficulty,
  isLoading,
  isAddModalOpen,
  isTopicTaggerOpen,
  editingQuestion,
  keepMetadata,
  lastUsedMetadata,
  tagger,            \* TopicTaggerModal state: targetTopic, keywords, keywordInput
  form,              \* AddQuestionModal state
  now                \* the clock Date.now() reads

dbVars == <<dbVersion, objectStoreNames, store>>
queueVars == <<inflight, lastResult>>
filterVars == <<searchQuery, includedKeywords, excludedKeywords, includedTopics,
                excludedTopics, selectedPaperType, selectedYear,
                selectedDifficulty>>
modalVars == <<isAddModalOpen, isTopicTaggerOpen, editingQuestion>>
metaVars == <<keepMetadata, lastUsedMetadata>>
restVars == <<isLoading, modalVars, metaVars, tagger, form, now>>
appVars == <<questions, filterVars, restVars>>
vars == <<dbVars, queueVars, appVars>>

(***************************************************************************)
(* Questions (src/types.ts).                                               *)
(***************************************************************************)
Ids == 1..MaxId

\* q.topics || []
TopicsOf(q) == IF "topics" \in DOMAIN q THEN q.topics ELSE <<>>

\* The object store's key path is 'id': a value without a valid key at that
\* path cannot be stored, and store.put(q) throws DataError synchronously.
HasKey(q) == "id" \in DOMAIN q

Range(s) == {s[i] : i \in DOMAIN s}

(***************************************************************************)
(* The storage engine as src/utils/db.ts uses it.  An object store with a  *)
(* key path holds one value per key; the committed contents are the set of *)
(* stored values.  A fault is what the engine may do to one operation:     *)
(* refuse to open the database, fail a request (the transaction then       *)
(* aborts and rolls back), or abort at commit after every request          *)
(* succeeded.                                                              *)
(***************************************************************************)
NoFault == [kind |-> "none", at |-> 0]
OpenFault == [kind |-> "open", at |-> 0]
RequestFault(k) == [kind |-> "request", at |-> k]
CommitFault == [kind |-> "commit", at |-> 0]

Rejected(st) == [store |-> st, outcome |-> "rejected", value |-> <<>>]
Resolved(st, v) == [store |-> st, outcome |-> "resolved", value |-> v]

\* objectStore.put(q): insert, or replace the value stored under q.id
PutAdds(st, q) == st \cup {q}
Put(st, q) == {r \in st : r.id # q.id} \cup {q}

\* objectStore.delete(id)
DeleteAll(st, id) == {}
Delete(st, id) == {r \in st : r.id # id}

\* objectStore.getAll(): every stored value, in ascending key order
RECURSIVE KeyOrder(_)
KeyOrder(S) ==
  IF S = {} THEN <<>>
  ELSE LET m == CHOOSE r \in S : \A s \in S : r.id <= s.id
       IN <<m>> \o KeyOrder(S \ {m})

\* an upgrade that creates nothing
UpgradeCreatingNothing(names) == names

\* request.onupgradeneeded of initDB: create the object store when missing
Upgrade(names) ==
  IF STORE_NAME \notin names THEN names \cup {STORE_NAME} ELSE names

\* initDB: the database after indexedDB.open(DB_NAME, DB_VERSION) under fault f
initDB(version, names, f) ==
  IF f.kind = "open" \/ version > DB_VERSION
  THEN [ok |-> FALSE, version |-> version, names |-> names]
  ELSE [ok |-> TRUE, version |-> DB_VERSION,
        names |-> IF version < DB_VERSION THEN Upgrade(names) ELSE names]

getAllQuestions(st, f) ==
  IF f.kind \in {"open", "request"} THEN Rejected(st)
  ELSE Resolved(st, KeyOrder(st))

\* resolves on request.onsuccess, rejects on request.onerror; nothing listens
\* to the transaction
addQuestionToDB(question, st, f) ==
  IF f.kind = "open" THEN Rejected(st)
  ELSE IF ~HasKey(question) THEN Rejected(st)
  ELSE IF f.kind = "request" THEN Rejected(st)
  ELSE IF f.kind = "commit" THEN Resolved(st, <<>>)
  ELSE Resolved(Put(st, question), <<>>)

\* the records questions.forEach queues before store.put throws
RECURSIVE Queued(_)
Queued(qs) ==
  IF qs = <<>> \/ ~HasKey(Head(qs)) THEN <<>>
  ELSE <<Head(qs)>> \o Queued(Tail(qs))

RECURSIVE PutAll(_, _)
PutAll(st, qs) ==
  IF qs = <<>> THEN st ELSE PutAll(Put(st, Head(qs)), Tail(qs))

\* resolves on transaction.oncomplete, rejects on transaction.onerror/onabort
\* and when the executor throws
bulkUpdateQuestions(batch, st, f) ==
  IF f.kind \in {"open", "request", "commit"} THEN Rejected(st)
  ELSE IF Len(Queued(batch)) < Len(batch)
       THEN Rejected(PutAll(st, Queued(batch)))
       ELSE Resolved(PutAll(st, batch), <<>>)

\* a delete that treats a missing id as an error
deleteRejectingMissing(id, st, f) ==
  IF f.kind \in {"open", "request"} THEN Rejected(st)
  ELSE IF id \notin {r.id : r \in st} THEN Rejected(st)
  ELSE IF f.kind = "commit" THEN Resolved(st, <<>>)
  ELSE Resolved(Delete(st, id), <<>>)

deleteQuestionFromDB(id, st, f) ==
  IF f.kind \in {"open", "request"} THEN Rejected(st)
  ELSE IF f.kind = "commit" THEN Resolved(st, <<>>)
  ELSE Resolved(Delete(st, id), <<>>)

clearAllQuestions(st, f) ==
  IF f.kind \in {"open", "request"} THEN Rejected(st)
  ELSE IF f.kind = "commit" THEN Resolved(st, <<>>)
  ELSE Resolved({}, <<>>)

\* the faults the engine can raise against one operation
Faults(e) ==
  {NoFault, OpenFault, CommitFault}
    \cup (IF e.op = "bulk"
          THEN {RequestFault(k) : k \in 1..Len(Queued(e.arg))}
          ELSE IF e.op = "put" /\ ~HasKey(e.arg) THEN {}
          ELSE {RequestFault(1)})

\* one operation run against the committed contents
Run(e, st, f) ==
  CASE e.op = "getAll" -> getAllQuestions(st, f)
    [] e.op = "put"    -> addQuestionToDB(e.arg, st, f)
    [] e.op = "bulk"   -> bulkUpdateQuestions(e.arg, st, f)
    [] e.op = "delete" -> deleteQuestionFromDB(e.arg, st, f)
    [] e.op = "clear"  -> clearAllQuestions(st, f)

(***************************************************************************)
(* The App component's state as its useState calls leave it                *)
(* (src/App.tsx, lines 11-31).                                             *)
(***************************************************************************)
InitFilters ==
  /\ searchQuery = ""
  /\ includedKeywords = <<>>
  /\ excludedKeywords = <<>>
  /\ includedTopics = <<>>
  /\ excludedTopics = <<>>
  /\ selectedPaperType = "All"
  /\ selectedYear = "All"
  /\ selectedDifficulty = "All"

\* JavaScript's null, where a Question or the sticky metadata is expected
Null == [null |-> TRUE]

\* q[field] || dflt, for an optional field
FieldOr(q, field, dflt) == IF field \in DOMAIN q THEN q[field] ELSE dflt

\* a fresh part, as useState and the reset effect of AddQuestionModal build it
\* (null image references are the string "null")
NewPart(t) ==
  [id |-> t, label |-> "a", questionImage |-> "null", answerImage |-> "null"]

\* AddQuestionModal's useState initial values (lines 26-52)
InitialForm(t) ==
  [step |-> 1, keywords |-> <<>>, keywordInput |-> "", topics |-> <<>>,
   topicInput |-> "", year |-> "2026", month |-> "May", questionNumber |-> "",
   paperType |-> "Paper 1", difficulty |-> "Medium",
   p1QuestionImage |-> "null", p1AnswerType |-> "Selection",
   p1AnswerSelection |-> "null", p1AnswerImage |-> "null",
   parts |-> <<NewPart(t)>>, activePartIndex |-> 0]

\* TopicTaggerModal's useState initial values (part_000, lines 22-24)
InitialTagger == [targetTopic |-> "", keywords |-> <<>>, keywordInput |-> ""]

\* the useState initial values of App (lines 19-31), modals closed
InitShell ==
  /\ isAddModalOpen = FALSE
  /\ isTopicTaggerOpen = FALSE
  /\ editingQuestion = Null
  /\ keepMetadata = FALSE
  /\ lastUsedMetadata = Null
  /\ tagger = InitialTagger
  /\ now = 1
  /\ form = InitialForm(1)

InitApp ==
  /\ questions = <<>>
  /\ InitFilters
  /\ isLoading = TRUE
  /\ InitShell

(***************************************************************************)
(* Strings.  TLC's strings are atomic, so the characters of the strings    *)
(* the model uses are tabulated; toLowerCase and includes are computed on  *)
(* the characters.                                                         *)
(***************************************************************************)
Chars(s) ==
  CASE s = ""       -> <<>>
    [] s = " "      -> <<" ">>
    [] s = " waves" -> <<" ", "w", "a", "v", "e", "s">>
    [] s = "A"      -> <<"A">>
    [] s = "B"      -> <<"B">>
    [] s = "C"      -> <<"C">>
    [] s = "D"      -> <<"D">>
    [] s = "E"      -> <<"E">>
    [] s = "a"      -> <<"a">>
    [] s = "b"      -> <<"b">>
    [] s = "waves"  -> <<"w", "a", "v", "e", "s">>
    [] s = "Waves"  -> <<"W", "a", "v", "e", "s">>
    [] s = "forces" -> <<"f", "o", "r", "c", "e", "s">>
    [] s = "B.4"    -> <<"B", ".", "4">>
    [] s = "b.4"    -> <<"b", ".", "4">>
    [] s = "A.1"    -> <<"A", ".", "1">>
    [] s = "1a"     -> <<"1", "a">>
    [] s = "4"      -> <<"4">>

\* String.prototype.toLowerCase, one character
LowerChar(c) ==
  CASE c = "A" -> "a" [] c = "B" -> "b" [] c = "C" -> "c" [] c = "D" -> "d"
    [] c = "E" -> "e" [] c = "W" -> "w" [] OTHER -> c

\* s.toLowerCase(), as characters
ToLowerCase(s) == [i \in DOMAIN Chars(s) |-> LowerChar(Chars(s)[i])]

\* String.prototype.includes on character sequences
Includes(cs, sub) ==
  \E i \in 0..(Len(cs) - Len(sub)) :
    \A j \in 1..Len(sub) : cs[i + j] = sub[j]

(***************************************************************************)
(* Derived data of the App (src/App.tsx, lines 50-99).                     *)
(***************************************************************************)
allKeywords == UNION {Range(questions[i].keywords) : i \in DOMAIN questions}
allTopics == UNION {Range(TopicsOf(questions[i])) : i \in DOMAIN questions}

\* a search that compares without lower-casing
matchesSearchCaseSensitive(q) ==
  \/ searchQuery = ""
  \/ \E k \in Range(q.keywords) : Includes(Chars(k), Chars(searchQuery))
  \/ \E t \in Range(TopicsOf(q)) : Includes(Chars(t), Chars(searchQuery))
  \/ /\ "questionNumber" \in DOMAIN q
     /\ Includes(Chars(q.questionNumber), Chars(searchQuery))

matchesSearch(q) ==
  \/ searchQuery = ""
  \/ \E k \in Range(q.keywords) :
       Includes(ToLowerCase(k), ToLowerCase(searchQuery))
  \/ \E t \in Range(TopicsOf(q)) :
       Includes(ToLowerCase(t), ToLowerCase(searchQuery))
  \/ /\ "questionNumber" \in DOMAIN q     \* q.questionNumber?.
     /\ Includes(ToLowerCase(q.questionNumber), ToLowerCase(searchQuery))

matchesType(q) == selectedPaperType = "All" \/ q.paperType = selectedPaperType
\* a === b on years and year selectors: NaN equals nothing, itself included
StrictEquals(a, b) == a = b /\ a # "NaN"

matchesYear(q) == selectedYear = "All" \/ StrictEquals(q.year, selectedYear)
matchesDifficulty(q) ==
  selectedDifficulty = "All" \/ q.difficulty = selectedDifficulty

\* includedKeywords.every(k => q.keywords.includes(k))
matchesAnyIncludedKeyword(q) ==
  \/ Len(includedKeywords) = 0
  \/ \E i \in DOMAIN includedKeywords :
       \E j \in DOMAIN q.keywords : q.keywords[j] = includedKeywords[i]
matchesIncludedKeywords(q) ==
  \/ Len(includedKeywords) = 0
  \/ \A i \in DOMAIN includedKeywords :
       \E j \in DOMAIN q.keywords : q.keywords[j] = includedKeywords[i]

\* a filter that asks for some included topic instead of every one
matchesAnyIncludedTopic(q) ==
  \/ Len(includedTopics) = 0
  \/ \E i \in DOMAIN includedTopics :
       \E j \in DOMAIN TopicsOf(q) : TopicsOf(q)[j] = includedTopics[i]

matchesIncludedTopics(q) ==
  \/ Len(includedTopics) = 0
  \/ \A i \in DOMAIN includedTopics :
       \E j \in DOMAIN TopicsOf(q) : TopicsOf(q)[j] = includedTopics[i]

\* !q.keywords.some(k => excludedKeywords.includes(k))
matchesExcludedKeywords(q) ==
  \/ Len(excludedKeywords) = 0
  \/ ~ \E j \in DOMAIN q.keywords :
         \E i \in DOMAIN excludedKeywords : excludedKeywords[i] = q.keywords[j]

matchesExcludedTopics(q) ==
  \/ Len(excludedTopics) = 0
  \/ ~ \E j \in DOMAIN TopicsOf(q) :
         \E i \in DOMAIN excludedTopics : excludedTopics[i] = TopicsOf(q)[j]

passesFilter(q) ==
  /\ matchesSearch(q) /\ matchesType(q) /\ matchesYear(q)
  /\ matchesDifficulty(q)
  /\ matchesIncludedKeywords(q) /\ matchesIncludedTopics(q)
  /\ matchesExcludedKeywords(q) /\ matchesExcludedTopics(q)

filteredQuestions == SelectSeq(questions, passesFilter)

(***************************************************************************)
(* Tri-state tag filters (src/App.tsx, lines 198-233).                     *)
(***************************************************************************)
\* prev.filter(i => i !== k)
Without(list, k) == SelectSeq(list, LAMBDA i : i # k)

\* the lists the handler's setState calls leave
toggleKeywordKeepsIncluded(included, excluded, k) ==
  IF k \in Range(included)
  THEN [included |-> included, excluded |-> Append(excluded, k)]
  ELSE IF k \in Range(excluded)
  THEN [included |-> included, excluded |-> Without(excluded, k)]
  ELSE [included |-> Append(included, k), excluded |-> excluded]
toggleKeywordSkipsExclude(included, excluded, k) ==
  IF k \in Range(included)
  THEN [included |-> Without(included, k), excluded |-> excluded]
  ELSE IF k \in Range(excluded)
  THEN [included |-> included, excluded |-> Without(excluded, k)]
  ELSE [included |-> Append(included, k), excluded |-> excluded]
\* a toggle to "include" that drops the keywords included before
toggleKeywordAlone(included, excluded, k) ==
  IF k \in Range(included)
  THEN [included |-> Without(included, k), excluded |-> Append(excluded, k)]
  ELSE IF k \in Range(excluded)
  THEN [included |-> included, excluded |-> Without(excluded, k)]
  ELSE [included |-> <<k>>, excluded |-> excluded]
toggleKeywordFilter(included, excluded, k) ==
  IF k \in Range(included)
  THEN [included |-> Without(included, k), excluded |-> Append(excluded, k)]
  ELSE IF k \in Range(excluded)
  THEN [included |-> included, excluded |-> Without(excluded, k)]
  ELSE [included |-> Append(included, k), excluded |-> excluded]

toggleTopicFilter(included, excluded, t) ==
  IF t \in Range(included)
  THEN [included |-> Without(included, t), excluded |-> Append(excluded, t)]
  ELSE IF t \in Range(excluded)
  THEN [included |-> included, excluded |-> Without(excluded, t)]
  ELSE [included |-> Append(included, t), excluded |-> excluded]

getTagState(item, type) ==
  IF type = "keyword"
  THEN IF item \in Range(includedKeywords) THEN "include"
       ELSE IF item \in Range(excludedKeywords) THEN "exclude"
       ELSE "neutral"
  ELSE IF item \in Range(includedTopics) THEN "include"
       ELSE IF item \in Range(excludedTopics) THEN "exclude"
       ELSE "neutral"

ToggleKeyword(k) ==
  LET n == toggleKeywordFilter(includedKeywords, excludedKeywords, k)
  IN /\ includedKeywords' = n.included
     /\ excludedKeywords' = n.excluded
     /\ UNCHANGED <<dbVars, queueVars, questions, searchQuery, includedTopics,
                    excludedTopics, selectedPaperType, selectedYear,
                    selectedDifficulty, restVars>>

ToggleTopic(t) ==
  LET n == toggleTopicFilter(includedTopics, excludedTopics, t)
  IN /\ includedTopics' = n.included
     /\ excludedTopics' = n.excluded
     /\ UNCHANGED <<dbVars, queueVars, questions, searchQuery, includedKeywords,
                    excludedKeywords, selectedPaperType, selectedYear,
                    selectedDifficulty, restVars>>

(***************************************************************************)
(* Settling the oldest operation in flight.  Every operation first awaits  *)
(* initDB(), and open requests on one database are served in the order     *)
(* they were made; the transactions all span the one object store, so they *)
(* run one after the other in the order they were created.  Nothing can    *)
(* observe the store between a request's success and its transaction's     *)
(* commit, so an operation is settled in one step.                         *)
(***************************************************************************)
Outcome(e, version, names, st, f) ==
  LET d == initDB(version, names, f)
  IN IF d.ok /\ STORE_NAME \in d.names
     THEN Run(e, st, f)
     ELSE Rejected(st)   \* open failed, or db.transaction threw NotFoundError

SettleDB(e, f) ==
  LET d == initDB(dbVersion, objectStoreNames, f)
      r == Outcome(e, dbVersion, objectStoreNames, store, f)
  IN /\ dbVersion' = d.version
     /\ objectStoreNames' = d.names
     /\ store' = r.store
     /\ lastResult' = [op |-> e.op, outcome |-> r.outcome, value |-> r.value,
                       fault |-> f.kind]
     /\ inflight' = Tail(inflight)

\* a direct caller awaits each call before making the next
ApiCall(e) ==
  /\ inflight = <<>>
  /\ inflight' = Append(inflight, e)
  /\ UNCHANGED <<dbVars, lastResult, appVars>>

(***************************************************************************)
(* The store's interface called directly, with any arguments: the callers  *)
(* of the functions src/utils/db.ts exports.                               *)
(***************************************************************************)
ApiStored ==
  [id : Ids, createdAt : {1}, keywords : {<<"waves">>},
   topics : {<<>>, <<"B.4">>}, difficulty : {"Medium"}, year : {"2020"},
   month : {"May"}, questionNumber : {""}, paperType : {"Paper 1"}]

\* a value with no `id`: not a Question, but a value the functions can be handed
NoKeyRecord ==
  [createdAt |-> 1, keywords |-> <<"waves">>, topics |-> <<>>,
   difficulty |-> "Medium", year |-> "2020", month |-> "May",
   questionNumber |-> "", paperType |-> "Paper 1"]

ApiRecords == ApiStored \cup {NoKeyRecord}

SeqsUpTo(S, n) == UNION {[1..k -> S] : k \in 0..n}

\* contents an object store keyed by id can hold
Stores(R) == {S \in SUBSET R : \A a, b \in S : a.id = b.id => a = b}

ApiGetAll == ApiCall([op |-> "getAll", arg |-> <<>>, who |-> "api"])
ApiAdd == \E q \in ApiRecords : ApiCall([op |-> "put", arg |-> q, who |-> "api"])
ApiBulk ==
  \E qs \in SeqsUpTo(ApiRecords, MaxBatch) :
    ApiCall([op |-> "bulk", arg |-> qs, who |-> "api"])
\* ids a caller can ask to delete: those records can have, and one none has
DeleteIds == Ids \cup {0}

ApiDelete ==
  \E id \in DeleteIds : ApiCall([op |-> "delete", arg |-> id, who |-> "api"])
ApiClear == ApiCall([op |-> "clear", arg |-> <<>>, who |-> "api"])

ApiSettle ==
  /\ inflight # <<>>
  /\ Head(inflight).who = "api"
  /\ \E f \in Faults(Head(inflight)) : SettleDB(Head(inflight), f)
  /\ UNCHANGED appVars

NoResult == [op |-> "none", outcome |-> "none", value |-> <<>>, fault |-> "none"]

InitStore ==
  /\ \/ dbVersion = 0 /\ objectStoreNames = {} /\ store = {}
     \/ dbVersion = DB_VERSION /\ objectStoreNames = {STORE_NAME}
        /\ store \in Stores(ApiStored)
  /\ inflight = <<>>
  /\ lastResult = NoResult
  /\ InitApp

NextStore ==
  \/ ApiGetAll
  \/ ApiAdd
  \/ ApiBulk
  \/ ApiDelete
  \/ ApiClear
  \/ ApiSettle

SpecStore == InitStore /\ [][NextStore]_vars

(***************************************************************************)
(* The filter on its own: the toggle handlers called with any tag, over an *)
(* in-memory set of two records drawn at the start.                        *)
(***************************************************************************)
KeywordPool == <<"A", "B", "C", "D", "E">>
Keywords == {KeywordPool[i] : i \in 1..MaxKeywords}
FilterTopics == {"B.4"}

\* the keywords of S as a list, in the pool's order
KeywordList(S) == SelectSeq(KeywordPool, LAMBDA k : k \in S)

FilterKeywordLists ==
  {KeywordList(S) : S \in {T \in SUBSET Keywords : Cardinality(T) <= MaxRecordKeywords}}

FilterRecords ==
  [id : {1}, createdAt : {1}, keywords : FilterKeywordLists,
   topics : {<<>>, <<"B.4">>}, difficulty : {"Medium"}, year : {"2020"},
   month : {"May"}, questionNumber : {""}, paperType : {"Paper 1"}]
  \cup
  \* a record stored before topics existed
  [id : {1}, createdAt : {1}, keywords : FilterKeywordLists,
   difficulty : {"Medium"}, year : {"2020"},
   month : {"May"}, questionNumber : {""}, paperType : {"Paper 1"}]

OtherRecord ==
  [id |-> 2, createdAt |-> 2, keywords |-> <<"A">>, topics |-> <<>>,
   difficulty |-> "Medium", year |-> "2020", month |-> "May",
   questionNumber |-> "", paperType |-> "Paper 1"]

InitFilter ==
  /\ dbVersion = DB_VERSION /\ objectStoreNames = {STORE_NAME}
  /\ \E q \in FilterRecords :
       /\ store = {q, OtherRecord}
       /\ questions = <<OtherRecord, q>>
  /\ inflight = <<>>
  /\ lastResult = NoResult
  /\ InitFilters
  /\ isLoading = FALSE
  /\ InitShell

NextFilter ==
  \/ \E k \in Keywords : ToggleKeyword(k)
  \/ \E t \in FilterTopics : ToggleTopic(t)

SpecFilter == InitFilter /\ [][NextFilter]_vars

(***************************************************************************)
(* Handlers of the App and of its modals.  Each asynchronous handler is a  *)
(* call step (up to its await) and a settle step (its continuation, run    *)
(* when the store settles the call).  The entry a handler puts in flight   *)
(* carries what its closure captured when it was called.                   *)
(***************************************************************************)
\* a handler starts a store operation; nothing makes it wait for earlier ones
Call(e) ==
  /\ Len(inflight) < MaxInflight
  /\ inflight' = Append(inflight, e)
  /\ UNCHANGED <<dbVars, lastResult>>

\* the oldest operation in flight was started by `who`
Oldest(who) == inflight # <<>> /\ Head(inflight).who = who

\* what the oldest operation in flight settles with, under fault f
Result(f) == Outcome(Head(inflight), dbVersion, objectStoreNames, store, f)

\* the modals cover the page: its buttons are reachable only with both closed
NoModal == ~isAddModalOpen /\ ~isTopicTaggerOpen

\* Array.prototype.map
RECURSIVE MapSeq(_, _)
MapSeq(F(_), s) == IF s = <<>> THEN <<>> ELSE <<F(Head(s))>> \o MapSeq(F, Tail(s))

\* String.prototype.trim on the strings a user types here
Trim(s) == CASE s = " " -> "" [] s = " waves" -> "waves" [] OTHER -> s

\* data.sort((a, b) => b.createdAt - a.createdAt): stable, newest first
RECURSIVE InsertNewestFirst(_, _)
InsertNewestFirst(q, sorted) ==
  IF sorted = <<>> THEN <<q>>
  ELSE IF Head(sorted).createdAt >= q.createdAt
       THEN <<Head(sorted)>> \o InsertNewestFirst(q, Tail(sorted))
       ELSE <<q>> \o sorted

RECURSIVE SortNewestFirst(_)
SortNewestFirst(list) ==
  IF list = <<>> THEN <<>>
  ELSE InsertNewestFirst(list[Len(list)],
                         SortNewestFirst(SubSeq(list, 1, Len(list) - 1)))

\* loadData (the mount effect): Init has its getAllQuestions call in flight
LoadEntry == [op |-> "getAll", arg |-> <<>>, who |-> "loadData"]

SettleLoad ==
  /\ Oldest("loadData")
  /\ \E f \in Faults(Head(inflight)) :
       /\ SettleDB(Head(inflight), f)
       /\ questions' = IF Result(f).outcome = "resolved"
                       THEN SortNewestFirst(Result(f).value)
                       ELSE questions
  /\ isLoading' = FALSE
  /\ UNCHANGED <<filterVars, modalVars, metaVars, tagger, form, now>>

(***************************************************************************)
(* TopicTaggerModal (src/unnamed/part_000) and handleAutoTag.              *)
(***************************************************************************)
\* a rule that selects every record lacking the topic, whatever its keywords
affectedIgnoringKeywords(allQuestions, targetTopic, keywords) ==
  IF targetTopic = "" \/ keywords = <<>> THEN <<>>
  ELSE SelectSeq(allQuestions,
                 LAMBDA q : targetTopic \notin Range(TopicsOf(q)))

\* a rule that selects without looking whether its target or trigger is empty
affectedUnguarded(allQuestions, targetTopic, keywords) ==
  SelectSeq(allQuestions,
    LAMBDA q :
      /\ \E i \in DOMAIN q.keywords : q.keywords[i] \in Range(keywords)
      /\ targetTopic \notin Range(TopicsOf(q)))

affectedQuestions(allQuestions, targetTopic, keywords) ==
  IF targetTopic = "" \/ keywords = <<>> THEN <<>>
  ELSE SelectSeq(allQuestions,
         LAMBDA q :
           LET hasKeyword ==
                 \E i \in DOMAIN q.keywords : q.keywords[i] \in Range(keywords)
               missingTopic == targetTopic \notin Range(TopicsOf(q))
           IN hasKeyword /\ missingTopic)

\* {...q, topics: [...(q.topics || []), targetTopic]}
WithTopic(q, targetTopic) ==
  [field \in DOMAIN q \cup {"topics"} |->
     IF field = "topics" THEN Append(TopicsOf(q), targetTopic) ELSE q[field]]

\* the list handleApply hands to onApply
handleApply(allQuestions, targetTopic, keywords) ==
  MapSeq(LAMBDA q : WithTopic(q, targetTopic),
         affectedQuestions(allQuestions, targetTopic, keywords))

\* the suggestion lists of the modal (before slice(0, 5))
taggerFilteredKeywords ==
  {k \in allKeywords :
     /\ Includes(ToLowerCase(k), ToLowerCase(tagger.keywordInput))
     /\ k \notin Range(tagger.keywords)}

taggerFilteredTopics ==
  {t \in allTopics :
     /\ Includes(ToLowerCase(t), ToLowerCase(tagger.targetTopic))
     /\ t # tagger.targetTopic}

\* what a user types into the two inputs of the modal
TopicInputs == {"", "B", "B.4"}
KeywordInputs == {"waves", "forces"}

TaggerStep ==
  UNCHANGED <<dbVars, queueVars, questions, filterVars, isLoading, modalVars,
              metaVars, form, now>>

\* the Auto Tag button of the sidebar, and the reset effect on isOpen
OpenTagger ==
  /\ NoModal
  /\ isTopicTaggerOpen' = TRUE
  /\ tagger' = InitialTagger
  /\ UNCHANGED <<dbVars, queueVars, questions, filterVars, isLoading,
                 isAddModalOpen, editingQuestion, metaVars, form, now>>

CloseTagger ==
  /\ isTopicTaggerOpen
  /\ isTopicTaggerOpen' = FALSE
  /\ UNCHANGED <<dbVars, queueVars, questions, filterVars, isLoading,
                 isAddModalOpen, editingQuestion, metaVars, tagger, form, now>>

TaggerSetTargetTopic(t) ==
  /\ isTopicTaggerOpen
  /\ tagger' = [tagger EXCEPT !.targetTopic = t]
  /\ TaggerStep

TaggerPickTopic(t) ==
  /\ isTopicTaggerOpen
  /\ tagger.targetTopic # ""
  /\ t \in taggerFilteredTopics
  /\ tagger' = [tagger EXCEPT !.targetTopic = t]
  /\ TaggerStep

TaggerSetKeywordInput(s) ==
  /\ isTopicTaggerOpen
  /\ tagger' = [tagger EXCEPT !.keywordInput = s]
  /\ TaggerStep

TaggerKeywordKeyDown ==
  /\ isTopicTaggerOpen
  /\ LET trimmed == Trim(tagger.keywordInput)
     IN tagger' = IF trimmed # "" /\ trimmed \notin Range(tagger.keywords)
                  THEN [tagger EXCEPT !.keywords = Append(@, trimmed),
                                      !.keywordInput = ""]
                  ELSE tagger
  /\ TaggerStep

TaggerPickKeyword(s) ==
  /\ isTopicTaggerOpen
  /\ tagger.keywordInput # ""
  /\ s \in taggerFilteredKeywords
  /\ tagger' = [tagger EXCEPT !.keywords = Append(@, s), !.keywordInput = ""]
  /\ TaggerStep

TaggerRemoveKeyword(k) ==
  /\ isTopicTaggerOpen
  /\ k \in Range(tagger.keywords)
  /\ tagger' = [tagger EXCEPT !.keywords = Without(@, k)]
  /\ TaggerStep

\* the Apply button (disabled while nothing qualifies): handleApply, then
\* handleAutoTag up to its await.  `rule` records the rule being applied.
TaggerApply ==
  /\ isTopicTaggerOpen
  /\ Cardinality({i \in DOMAIN inflight : inflight[i].who = "handleAutoTag"})
       < MaxApplies
  /\ affectedQuestions(questions, tagger.targetTopic, tagger.keywords) # <<>>
  /\ isLoading' = TRUE
  /\ Call([op |-> "bulk",
           arg |-> handleApply(questions, tagger.targetTopic, tagger.keywords),
           who |-> "handleAutoTag",
           rule |-> [targetTopic |-> tagger.targetTopic,
                     keywords |-> tagger.keywords]])
  /\ UNCHANGED <<questions, filterVars, modalVars, metaVars, tagger, form, now>>

\* updatedQuestions.find(uq => uq.id === id)
FindById(updatedQuestions, id) ==
  updatedQuestions[CHOOSE i \in DOMAIN updatedQuestions :
                     /\ updatedQuestions[i].id = id
                     /\ \A j \in 1..(i - 1) : updatedQuestions[j].id # id]

\* the setQuestions updater of handleAutoTag
replaceUpdated(prev, updatedQuestions) ==
  LET updatedIds == {updatedQuestions[i].id : i \in DOMAIN updatedQuestions}
  IN MapSeq(LAMBDA q : IF q.id \in updatedIds
                       THEN FindById(updatedQuestions, q.id) ELSE q,
            prev)

\* handleAutoTag after its await
SettleAutoTag ==
  /\ Oldest("handleAutoTag")
  /\ \E f \in Faults(Head(inflight)) :
       /\ SettleDB(Head(inflight), f)
       /\ IF Result(f).outcome = "resolved"
          THEN /\ questions' = replaceUpdated(questions, Head(inflight).arg)
               /\ isTopicTaggerOpen' = FALSE
          ELSE UNCHANGED <<questions, isTopicTaggerOpen>>
  /\ isLoading' = FALSE
  /\ UNCHANGED <<filterVars, isAddModalOpen, editingQuestion, metaVars, tagger,
                 form, now>>

(***************************************************************************)
(* The tagger over a loaded library: records with one or two keywords,     *)
(* with and without a topics field, and every rule a user can enter.       *)
(***************************************************************************)
TaggerFields ==
  [difficulty |-> "Medium", year |-> "2020", month |-> "May",
   questionNumber |-> "", paperType |-> "Paper 1"]

\* a record saved before the topics field existed
Legacy(id, ks) ==
  [field \in DOMAIN TaggerFields \cup {"id", "createdAt", "keywords"} |->
     CASE field = "id" -> id
       [] field = "createdAt" -> id
       [] field = "keywords" -> ks
       [] OTHER -> TaggerFields[field]]

Tagged(id, ks, ts) ==
  [field \in DOMAIN Legacy(id, ks) \cup {"topics"} |->
     IF field = "topics" THEN ts ELSE Legacy(id, ks)[field]]

OlderRecords ==
  {Legacy(1, ks) : ks \in {<<"waves">>, <<"forces">>, <<"waves", "forces">>}}
  \cup {Tagged(1, ks, ts) :
          ks \in {<<"waves">>, <<"forces">>, <<"waves", "forces">>},
          ts \in {<<>>, <<"B.4">>, <<"A.1">>}}

NewerRecords ==
  {Legacy(MaxId, <<"forces">>), Tagged(MaxId, <<"forces">>, <<"B.4">>),
   Tagged(MaxId, <<"waves">>, <<>>)}

\* libraries as loadData leaves them: newest first, one record per id
TaggerLibraries ==
  {<<>>} \cup {<<q>> : q \in OlderRecords}
         \cup {<<q, r>> : q \in NewerRecords, r \in OlderRecords}

InitTagger ==
  /\ dbVersion = DB_VERSION /\ objectStoreNames = {STORE_NAME}
  /\ questions \in TaggerLibraries
  /\ store = Range(questions)
  /\ inflight = <<>>
  /\ lastResult = NoResult
  /\ InitFilters
  /\ isLoading = FALSE
  /\ InitShell

NextTagger ==
  \/ OpenTagger
  \/ CloseTagger
  \/ \E t \in TopicInputs : TaggerSetTargetTopic(t)
  \/ \E t \in TopicInputs : TaggerPickTopic(t)
  \/ \E s \in KeywordInputs : TaggerSetKeywordInput(s)
  \/ TaggerKeywordKeyDown
  \/ \E s \in KeywordInputs : TaggerPickKeyword(s)
  \/ \E k \in KeywordInputs : TaggerRemoveKeyword(k)
  \/ TaggerApply
  \/ SettleAutoTag

SpecTagger == InitTagger /\ [][NextTagger]_vars

(***************************************************************************)
(* AddQuestionModal (src/components/AddQuestionModal.tsx) and              *)
(* handleSaveQuestion.                                                     *)
(***************************************************************************)
\* the effect on [isOpen, initialQuestion, stickyMetadata], run with the modal
\* open: f is the form before it, t the clock
resetForm(f, initialQuestion, stickyMetadata, t) ==
  IF initialQuestion # Null
  THEN [f EXCEPT
          !.step = 1, !.activePartIndex = 0,
          !.keywords = initialQuestion.keywords,
          !.topics = TopicsOf(initialQuestion),
          !.year = initialQuestion.year,
          !.month = initialQuestion.month,
          !.questionNumber = initialQuestion.questionNumber,
          !.paperType = initialQuestion.paperType,
          !.difficulty = FieldOr(initialQuestion, "difficulty", "Medium"),
          !.p1QuestionImage = FieldOr(initialQuestion, "p1QuestionImage", "null"),
          !.p1AnswerType = FieldOr(initialQuestion, "p1AnswerType", "Selection"),
          !.p1AnswerSelection =
             FieldOr(initialQuestion, "p1AnswerSelection", "null"),
          !.p1AnswerImage = FieldOr(initialQuestion, "p1AnswerImage", "null"),
          !.parts = FieldOr(initialQuestion, "parts", <<NewPart(t)>>)]
  ELSE LET seeded == stickyMetadata # Null
       IN [f EXCEPT
             !.step = 1, !.activePartIndex = 0,
             !.keywords = IF seeded THEN stickyMetadata.keywords ELSE <<>>,
             !.topics = IF seeded THEN stickyMetadata.topics ELSE <<>>,
             !.year = IF seeded THEN stickyMetadata.year ELSE "2026",
             !.month = IF seeded THEN stickyMetadata.month ELSE "May",
             !.paperType = IF seeded THEN stickyMetadata.paperType
                           ELSE "Paper 1",
             !.difficulty = IF seeded THEN stickyMetadata.difficulty
                            ELSE "Medium",
             !.keywordInput = "", !.topicInput = "", !.questionNumber = "",
             !.p1QuestionImage = "null", !.p1AnswerSelection = "null",
             !.p1AnswerImage = "null",
             !.parts = <<NewPart(t)>>]

\* the stickyMetadata prop the App passes
stickyMetadataProp(keep, lastUsed) == IF keep THEN lastUsed ELSE Null

\* Date.now() does not run backwards, and two reads can return the same value
Tick ==
  /\ now < MaxClock
  /\ now' = now + 1
  /\ UNCHANGED <<dbVars, queueVars, questions, filterVars, isLoading,
                 modalVars, metaVars, tagger, form>>

\* the Add Question buttons
OpenAdd ==
  /\ NoModal
  /\ editingQuestion' = Null
  /\ isAddModalOpen' = TRUE
  /\ form' = resetForm(form, Null,
                       stickyMetadataProp(keepMetadata, lastUsedMetadata), now)
  /\ UNCHANGED <<dbVars, queueVars, questions, filterVars, isLoading,
                 isTopicTaggerOpen, metaVars, tagger, now>>

\* handleEditQuestion, from a card of the list
OpenEdit(q) ==
  /\ NoModal
  /\ ~isLoading
  /\ q \in Range(filteredQuestions)
  /\ editingQuestion' = q
  /\ isAddModalOpen' = TRUE
  /\ form' = resetForm(form, q,
                       stickyMetadataProp(keepMetadata, lastUsedMetadata), now)
  /\ UNCHANGED <<dbVars, queueVars, questions, filterVars, isLoading,
                 isTopicTaggerOpen, metaVars, tagger, now>>

FormStep ==
  UNCHANGED <<dbVars, queueVars, questions, filterVars, isLoading, modalVars,
              metaVars, tagger, now>>

CloseAdd ==
  /\ isAddModalOpen
  /\ isAddModalOpen' = FALSE
  /\ UNCHANGED <<dbVars, queueVars, questions, filterVars, isLoading,
                 isTopicTaggerOpen, editingQuestion, metaVars, tagger, form,
                 now>>

nextStep ==
  /\ isAddModalOpen /\ form.step = 1
  /\ form' = [form EXCEPT !.step = 2]
  /\ FormStep

prevStep ==
  /\ isAddModalOpen /\ form.step = 2
  /\ form' = [form EXCEPT !.step = 1]
  /\ FormStep

FormSetKeywordInput(s) ==
  /\ isAddModalOpen /\ form.step = 1
  /\ form' = [form EXCEPT !.keywordInput = s]
  /\ FormStep

FormKeywordKeyDown ==
  /\ isAddModalOpen /\ form.step = 1
  /\ LET trimmed == Trim(form.keywordInput)
     IN form' = IF trimmed # "" /\ trimmed \notin Range(form.keywords)
                THEN [form EXCEPT !.keywords = Append(@, trimmed),
                                  !.keywordInput = ""]
                ELSE form
  /\ FormStep

\* a record built with both payloads, whatever the paper type
newQuestionWithBothPayloads(f, initialQuestion, t, t2) ==
  [id |-> IF initialQuestion # Null THEN initialQuestion.id ELSE t,
   createdAt |-> IF initialQuestion # Null THEN initialQuestion.createdAt ELSE t2,
   keywords |-> f.keywords, topics |-> f.topics,
   difficulty |-> f.difficulty, year |-> f.year,
   month |-> f.month, questionNumber |-> f.questionNumber,
   paperType |-> f.paperType,
   p1QuestionImage |-> f.p1QuestionImage, p1AnswerType |-> f.p1AnswerType,
   p1AnswerSelection |-> f.p1AnswerSelection,
   p1AnswerImage |-> f.p1AnswerImage, parts |-> f.parts]

\* the record handleSubmit builds; createdAt is a second read of the clock
newQuestion(f, initialQuestion, t, t2) ==
  LET meta == [id |-> IF initialQuestion # Null THEN initialQuestion.id ELSE t,
               createdAt |-> IF initialQuestion # Null
                             THEN initialQuestion.createdAt ELSE t2,
               keywords |-> f.keywords, topics |-> f.topics,
               difficulty |-> f.difficulty, year |-> f.year,
               month |-> f.month, questionNumber |-> f.questionNumber,
               paperType |-> f.paperType]
      payload == IF f.paperType = "Paper 1"
                 THEN [p1QuestionImage |-> f.p1QuestionImage,
                       p1AnswerType |-> f.p1AnswerType,
                       p1AnswerSelection |-> f.p1AnswerSelection,
                       p1AnswerImage |-> f.p1AnswerImage]
                 ELSE [parts |-> f.parts]
  IN [field \in DOMAIN meta \cup DOMAIN payload |->
        IF field \in DOMAIN meta THEN meta[field] ELSE payload[field]]

\* handleSubmit: onSave(newQuestion), which is handleSaveQuestion up to its
\* await, then onClose().  `create` records that initialQuestion was absent.
Submit ==
  /\ isAddModalOpen /\ form.step = 2
  /\ Cardinality({i \in DOMAIN inflight :
                    inflight[i].who = "handleSaveQuestion"}) < MaxSaves
  /\ \E t2 \in {now, IF now < MaxClock THEN now + 1 ELSE now} :
       /\ now' = t2
       /\ Call([op |-> "put",
                arg |-> newQuestion(form, editingQuestion, now, t2),
                who |-> "handleSaveQuestion",
                keepMetadata |-> keepMetadata,
                create |-> (editingQuestion = Null)])
  /\ isAddModalOpen' = FALSE
  /\ UNCHANGED <<questions, filterVars, isLoading, isTopicTaggerOpen,
                 editingQuestion, metaVars, tagger, form>>

\* the metadata handleSaveQuestion keeps for the next form
metadataOf(question) ==
  [year |-> question.year, month |-> question.month,
   keywords |-> question.keywords, topics |-> question.topics,
   paperType |-> question.paperType, difficulty |-> question.difficulty]

\* an updater that puts the saved record first and does not sort
saveUnsorted(prev, question) ==
  <<question>> \o SelectSeq(prev, LAMBDA q : q.id # question.id)

\* the setQuestions updater of handleSaveQuestion
saveUpdated(prev, question) ==
  LET others == SelectSeq(prev, LAMBDA q : q.id # question.id)
  IN SortNewestFirst(<<question>> \o others)

\* handleSaveQuestion after its await; a new stickyMetadata prop re-runs the
\* effect of a form that is open
SettleSave ==
  /\ Oldest("handleSaveQuestion")
  /\ \E f \in Faults(Head(inflight)) :
       /\ SettleDB(Head(inflight), f)
       /\ IF Result(f).outcome = "resolved"
          THEN /\ questions' = saveUpdated(questions, Head(inflight).arg)
               /\ lastUsedMetadata' =
                    IF Head(inflight).keepMetadata
                    THEN metadataOf(Head(inflight).arg) ELSE lastUsedMetadata
               /\ form' =
                    IF Head(inflight).keepMetadata /\ keepMetadata
                       /\ isAddModalOpen
                    THEN resetForm(form, editingQuestion,
                                   metadataOf(Head(inflight).arg), now)
                    ELSE form
          ELSE UNCHANGED <<questions, lastUsedMetadata, form>>
  /\ UNCHANGED <<filterVars, isLoading, modalVars, keepMetadata, tagger, now>>

\* the Keep Metadata switch of the sidebar
ToggleKeepMetadata ==
  /\ NoModal
  /\ keepMetadata' = ~keepMetadata
  /\ UNCHANGED <<dbVars, queueVars, questions, filterVars, isLoading,
                 modalVars, lastUsedMetadata, tagger, form, now>>

\* handleDeleteQuestion, from a card of the list, with the confirm accepted
HandleDelete(q) ==
  /\ NoModal
  /\ ~isLoading
  /\ q \in Range(filteredQuestions)
  /\ Call([op |-> "delete", arg |-> q.id, who |-> "handleDeleteQuestion"])
  /\ UNCHANGED appVars

SettleDelete ==
  /\ Oldest("handleDeleteQuestion")
  /\ \E f \in Faults(Head(inflight)) :
       /\ SettleDB(Head(inflight), f)
       /\ questions' =
            IF Result(f).outcome = "resolved"
            THEN SelectSeq(questions, LAMBDA q : q.id # Head(inflight).arg)
            ELSE questions
  /\ UNCHANGED <<filterVars, restVars>>

\* handleClearLibrary run although the second confirm was declined
HandleClearOnFirstConfirm(first, second) ==
  /\ NoModal
  /\ IF questions # <<>> /\ first
     THEN /\ isLoading' = TRUE
          /\ Call([op |-> "clear", arg |-> <<>>, who |-> "handleClearLibrary",
                   confirms |-> <<first, second>>])
          /\ UNCHANGED <<questions, filterVars, modalVars, metaVars, tagger,
                         form, now>>
     ELSE UNCHANGED vars

\* handleClearLibrary; first and second are what the two confirm dialogs
\* return (the second is asked only after the first was accepted)
HandleClear(first, second) ==
  /\ NoModal
  /\ IF questions # <<>> /\ first /\ second
     THEN /\ isLoading' = TRUE
          /\ Call([op |-> "clear", arg |-> <<>>, who |-> "handleClearLibrary",
                   confirms |-> <<first, second>>])
          /\ UNCHANGED <<questions, filterVars, modalVars, metaVars, tagger,
                         form, now>>
     ELSE UNCHANGED vars

SettleClear ==
  /\ Oldest("handleClearLibrary")
  /\ \E f \in Faults(Head(inflight)) :
       /\ SettleDB(Head(inflight), f)
       /\ questions' = IF Result(f).outcome = "resolved" THEN <<>>
                       ELSE questions
  /\ isLoading' = FALSE
  /\ UNCHANGED <<filterVars, modalVars, metaVars, tagger, form, now>>

(***************************************************************************)
(* The App from its mount, its user adding questions: loadData in flight,  *)
(* then any interleaving of the form's steps, the clock, and the store     *)
(* settling what is in flight.                                             *)
(***************************************************************************)
\* what an earlier session left in the store; its ids are earlier clock values
StoredBefore ==
  {{}} \cup {{Tagged(id, <<"waves">>, <<>>)} : id \in 1..MaxStoredId}

Init ==
  /\ \/ dbVersion = 0 /\ objectStoreNames = {} /\ store = {}
     \/ dbVersion = DB_VERSION /\ objectStoreNames = {STORE_NAME}
        /\ store \in StoredBefore
  /\ inflight = <<LoadEntry>>
  /\ lastResult = NoResult
  /\ questions = <<>>
  /\ InitFilters
  /\ isLoading = TRUE
  /\ isAddModalOpen = FALSE
  /\ isTopicTaggerOpen = FALSE
  /\ editingQuestion = Null
  /\ keepMetadata = FALSE
  /\ lastUsedMetadata = Null
  /\ tagger = InitialTagger
  /\ now = MaxStoredId + 1
  /\ form = InitialForm(MaxStoredId + 1)

Next ==
  \/ SettleLoad
  \/ Tick
  \/ OpenAdd
  \/ CloseAdd
  \/ nextStep
  \/ prevStep
  \/ FormSetKeywordInput("waves")
  \/ FormKeywordKeyDown
  \/ Submit
  \/ SettleSave

Spec == Init /\ [][Next]_vars

(***************************************************************************)
(* The tagger used while a save may still be in flight: the App has loaded *)
(* its library and its user has just submitted the form for a new question *)
(* with the keyword "waves" (a state Spec reaches in six steps).           *)
(***************************************************************************)
SubmittedForm ==
  [InitialForm(MaxStoredId + 1) EXCEPT !.step = 2, !.keywords = <<"waves">>]

PendingSave ==
  [op |-> "put",
   arg |-> newQuestion(SubmittedForm, Null, MaxStoredId + 1, MaxStoredId + 1),
   who |-> "handleSaveQuestion", keepMetadata |-> FALSE, create |-> TRUE]

InitAutoTag ==
  /\ dbVersion = DB_VERSION /\ objectStoreNames = {STORE_NAME}
  /\ store \in StoredBefore
  /\ questions = SortNewestFirst(KeyOrder(store))
  /\ lastResult = [op |-> "getAll", outcome |-> "resolved",
                   value |-> KeyOrder(store), fault |-> "none"]
  /\ inflight = <<PendingSave>>
  /\ form = SubmittedForm
  /\ now = MaxStoredId + 1
  /\ InitFilters
  /\ isLoading = FALSE
  /\ isAddModalOpen = FALSE
  /\ isTopicTaggerOpen = FALSE
  /\ editingQuestion = Null
  /\ keepMetadata = FALSE
  /\ lastUsedMetadata = Null
  /\ tagger = InitialTagger

NextAutoTag ==
  \/ SettleSave
  \/ OpenTagger
  \/ CloseTagger
  \/ \E t \in TopicInputs : TaggerSetTargetTopic(t)
  \/ \E s \in KeywordInputs : TaggerSetKeywordInput(s)
  \/ TaggerKeywordKeyDown
  \/ \E k \in KeywordInputs : TaggerRemoveKeyword(k)
  \/ TaggerApply
  \/ SettleAutoTag

SpecAutoTag == InitAutoTag /\ [][NextAutoTag]_vars

(***************************************************************************)
(* The year controls of the form (AddQuestionModal.tsx, lines 195-201 and  *)
(* 262-278), and the App with its library loaded and the form in use.      *)
(***************************************************************************)
\* parseInt of a numeral, and of text that does not start with a digit
parseInt(text) == IF text \in {"", "NaN"} THEN "NaN" ELSE text

\* what a user leaves in the year input
YearTexts == {"", "2024"}

\* the number input, rendered unless the year is Unknown
FormSetYear(text) ==
  /\ isAddModalOpen /\ form.step = 1
  /\ form.year # "Unknown"
  /\ form' = [form EXCEPT !.year = parseInt(text)]
  /\ FormStep

toggleYearUnknown ==
  /\ isAddModalOpen /\ form.step = 1
  /\ form' = [form EXCEPT !.year = IF @ = "Unknown" THEN "2026" ELSE "Unknown"]
  /\ FormStep

\* the App once loadData has settled, nothing in flight, the clock at t
Loaded(libraries, keep, t) ==
  /\ dbVersion = DB_VERSION /\ objectStoreNames = {STORE_NAME}
  /\ store \in libraries
  /\ questions = SortNewestFirst(KeyOrder(store))
  /\ lastResult = [op |-> "getAll", outcome |-> "resolved",
                   value |-> KeyOrder(store), fault |-> "none"]
  /\ inflight = <<>>
  /\ InitFilters
  /\ isLoading = FALSE
  /\ isAddModalOpen = FALSE
  /\ isTopicTaggerOpen = FALSE
  /\ editingQuestion = Null
  /\ keepMetadata = keep
  /\ lastUsedMetadata = Null
  /\ tagger = InitialTagger
  /\ now = t
  /\ form = InitialForm(MaxStoredId + 1)

InitLoaded == Loaded(StoredBefore, FALSE, MaxStoredId + 1)

NextYear ==
  \/ OpenAdd
  \/ CloseAdd
  \/ \E text \in YearTexts : FormSetYear(text)
  \/ toggleYearUnknown
  \/ nextStep
  \/ prevStep
  \/ Submit
  \/ SettleSave

SpecYear == InitLoaded /\ [][NextYear]_vars

(***************************************************************************)
(* The three selectors of the sidebar (src/App.tsx, lines 274-302) over a  *)
(* loaded library.                                                         *)
(***************************************************************************)
\* the years of the library: the options of the year selector after All
availableYears == {questions[i].year : i \in DOMAIN questions}

setSelectedPaperType(v) ==
  /\ NoModal
  /\ selectedPaperType' = v
  /\ UNCHANGED <<dbVars, queueVars, questions, searchQuery, includedKeywords,
                 excludedKeywords, includedTopics, excludedTopics,
                 selectedYear, selectedDifficulty, restVars>>

\* an option's value is the option's year as a string
setSelectedYear(value) ==
  /\ NoModal
  /\ value \in {"All"} \cup availableYears
  /\ selectedYear' = IF value = "All" THEN "All"
                     ELSE IF value = "Unknown" THEN "Unknown"
                     ELSE parseInt(value)
  /\ UNCHANGED <<dbVars, queueVars, questions, searchQuery, includedKeywords,
                 excludedKeywords, includedTopics, excludedTopics,
                 selectedPaperType, selectedDifficulty, restVars>>

setSelectedDifficulty(v) ==
  /\ NoModal
  /\ selectedDifficulty' = v
  /\ UNCHANGED <<dbVars, queueVars, questions, searchQuery, includedKeywords,
                 excludedKeywords, includedTopics, excludedTopics,
                 selectedPaperType, selectedYear, restVars>>

\* records of every paper type, difficulty and year a form can have stored
\* ("NaN": the year input was empty at submission)
SelectorRecords(id) ==
  {[Tagged(id, <<"waves">>, <<>>) EXCEPT
      !.year = y, !.paperType = p, !.difficulty = d] :
   y \in {"2020", "Unknown", "NaN"}, p \in {"Paper 1", "Paper 2/1-b"},
   d \in {"Easy", "Medium"}}

SelectorLibraries ==
  {<<q>> : q \in SelectorRecords(1)}
    \cup {<<q, r>> : q \in SelectorRecords(MaxId), r \in SelectorRecords(1)}

InitSelect ==
  /\ dbVersion = DB_VERSION /\ objectStoreNames = {STORE_NAME}
  /\ questions \in SelectorLibraries
  /\ store = Range(questions)
  /\ inflight = <<>>
  /\ lastResult = NoResult
  /\ InitFilters
  /\ isLoading = FALSE
  /\ InitShell

NextSelect ==
  \/ \E v \in {"All", "Paper 1", "Paper 2/1-b"} : setSelectedPaperType(v)
  \/ \E value \in {"All"} \cup availableYears : setSelectedYear(value)
  \/ \E v \in {"All", "Easy", "Medium", "Hard"} : setSelectedDifficulty(v)

SpecSelect == InitSelect /\ [][NextSelect]_vars

(***************************************************************************)
(* The topic buttons over a loaded library whose records carry any of      *)
(* three topics, or no topics field at all.                                *)
(***************************************************************************)
TopicPool == <<"B.4", "A.1", "C.2">>

TopicLists == {SelectSeq(TopicPool, LAMBDA t : t \in S) : S \in SUBSET Range(TopicPool)}

TopicRecords ==
  {Legacy(1, <<"waves">>)} \cup {Tagged(1, <<"waves">>, ts) : ts \in TopicLists}

InitTopics ==
  /\ dbVersion = DB_VERSION /\ objectStoreNames = {STORE_NAME}
  /\ \E q \in TopicRecords :
       /\ questions = <<Tagged(MaxId, <<"forces">>, <<"B.4">>), q>>
       /\ store = Range(questions)
  /\ inflight = <<>>
  /\ lastResult = NoResult
  /\ InitFilters
  /\ isLoading = FALSE
  /\ InitShell

NextTopics == \E t \in Range(TopicPool) : ToggleTopic(t)

SpecTopics == InitTopics /\ [][NextTopics]_vars

(***************************************************************************)
(* The search box (src/App.tsx, line 262) over a loaded library.           *)
(***************************************************************************)
\* what a user types into the search box
SearchTexts == {"", "a", "A", "waves", "b.4", "4", "1a", "E"}

setSearchQuery(text) ==
  /\ NoModal
  /\ searchQuery' = text
  /\ UNCHANGED <<dbVars, queueVars, questions, includedKeywords,
                 excludedKeywords, includedTopics, excludedTopics,
                 selectedPaperType, selectedYear, selectedDifficulty,
                 restVars>>

\* records with and without a topics field and a question-number label
SearchRecords ==
  LET labelled(q, n) == [q EXCEPT !.questionNumber = n]
      unlabelled(q) == [field \in DOMAIN q \ {"questionNumber"} |-> q[field]]
      base == {Legacy(1, ks) : ks \in {<<"Waves">>, <<"forces">>}}
              \cup {Tagged(1, ks, ts) : ks \in {<<"Waves">>, <<"forces">>},
                                        ts \in {<<>>, <<"B.4">>}}
  IN base \cup {labelled(q, "1a") : q \in base}
          \cup {unlabelled(q) : q \in base}

InitSearch ==
  /\ dbVersion = DB_VERSION /\ objectStoreNames = {STORE_NAME}
  /\ \E q \in SearchRecords :
       /\ questions = <<Tagged(MaxId, <<"E">>, <<"A.1">>), q>>
       /\ store = Range(questions)
  /\ inflight = <<>>
  /\ lastResult = NoResult
  /\ InitFilters
  /\ isLoading = FALSE
  /\ InitShell

NextSearch == \E text \in SearchTexts : setSearchQuery(text)

SpecSearch == InitSearch /\ [][NextSearch]_vars

(***************************************************************************)
(* The tag inputs of the form (AddQuestionModal.tsx, lines 107-130,        *)
(* 184-190 and 336-391).                                                   *)
(***************************************************************************)
\* suggestions that also offer the keywords already listed
formMatchingKeywords ==
  {k \in allKeywords :
     Includes(ToLowerCase(k), ToLowerCase(form.keywordInput))}

\* the suggestion lists of the form (before slice(0, 5))
formFilteredKeywords ==
  {k \in allKeywords :
     /\ Includes(ToLowerCase(k), ToLowerCase(form.keywordInput))
     /\ k \notin Range(form.keywords)}

formFilteredTopics ==
  {t \in allTopics :
     /\ Includes(ToLowerCase(t), ToLowerCase(form.topicInput))
     /\ t \notin Range(form.topics)}

FormPickKeyword(s) ==
  /\ isAddModalOpen /\ form.step = 1
  /\ form.keywordInput # ""
  /\ s \in formFilteredKeywords
  /\ form' = [form EXCEPT !.keywords = Append(@, s), !.keywordInput = ""]
  /\ FormStep

removeKeyword(k) ==
  /\ isAddModalOpen /\ form.step = 1
  /\ k \in Range(form.keywords)
  /\ form' = [form EXCEPT !.keywords = Without(@, k)]
  /\ FormStep

FormSetTopicInput(s) ==
  /\ isAddModalOpen /\ form.step = 1
  /\ form' = [form EXCEPT !.topicInput = s]
  /\ FormStep

FormTopicKeyDown ==
  /\ isAddModalOpen /\ form.step = 1
  /\ LET trimmed == Trim(form.topicInput)
     IN form' = IF trimmed # "" /\ trimmed \notin Range(form.topics)
                THEN [form EXCEPT !.topics = Append(@, trimmed),
                                  !.topicInput = ""]
                ELSE form
  /\ FormStep

FormPickTopic(t) ==
  /\ isAddModalOpen /\ form.step = 1
  /\ form.topicInput # ""
  /\ t \in formFilteredTopics
  /\ form' = [form EXCEPT !.topics = Append(@, t), !.topicInput = ""]
  /\ FormStep

removeTopic(t) ==
  /\ isAddModalOpen /\ form.step = 1
  /\ t \in Range(form.topics)
  /\ form' = [form EXCEPT !.topics = Without(@, t)]
  /\ FormStep

(***************************************************************************)
(* Tags from every source: the form's inputs, suggestions and removals,    *)
(* the metadata kept from the last save, and the auto-tag rule.  The       *)
(* library is loaded, one of its records carries the topic already, the    *)
(* "keep metadata" toggle has been switched on, and the clock has reached  *)
(* its last value.                                                         *)
(***************************************************************************)
TagLibrary ==
  {Tagged(1, <<"waves">>, <<>>), Tagged(2, <<"waves">>, <<"B.4">>)}

InitTags == Loaded({TagLibrary}, TRUE, MaxClock)

NextTags ==
  \/ OpenAdd
  \/ \E s \in {"waves", " waves"} : FormSetKeywordInput(s)
  \/ FormKeywordKeyDown
  \/ \E s \in KeywordInputs : FormPickKeyword(s)
  \/ \E k \in KeywordInputs : removeKeyword(k)
  \/ FormSetTopicInput("B.4")
  \/ FormTopicKeyDown
  \/ FormPickTopic("B.4")
  \/ removeTopic("B.4")
  \/ nextStep
  \/ Submit
  \/ SettleSave
  \/ OpenTagger
  \/ TaggerSetTargetTopic("B.4")
  \/ TaggerSetKeywordInput("waves")
  \/ TaggerKeywordKeyDown
  \/ TaggerApply
  \/ SettleAutoTag

SpecTags == InitTags /\ [][NextTags]_vars

(***************************************************************************)
(* The tagger used next to the edit form: the library holds one record,    *)
(* its user edits the record's keywords and saves, and opens the tagger    *)
(* at any point, perhaps while the save is still in flight.                *)
(***************************************************************************)
EditLibrary == {Tagged(1, <<"waves">>, <<>>)}

InitEditTag == Loaded({EditLibrary}, FALSE, MaxClock)

NextEditTag ==
  \/ \E q \in Range(questions) : OpenEdit(q)
  \/ FormSetKeywordInput("forces")
  \/ FormKeywordKeyDown
  \/ nextStep
  \/ Submit
  \/ SettleSave
  \/ OpenTagger
  \/ TaggerSetTargetTopic("B.4")
  \/ TaggerSetKeywordInput("waves")
  \/ TaggerKeywordKeyDown
  \/ TaggerApply
  \/ SettleAutoTag

SpecEditTag == InitEditTag /\ [][NextEditTag]_vars

(***************************************************************************)
(* The paper type of the form (AddQuestionModal.tsx, lines 240-248): a     *)
(* library of one Paper 1 record saved through the form, its user adding   *)
(* and editing questions of either paper type and applying auto-tag rules. *)
(***************************************************************************)
PaperTypes == {"Paper 1", "Paper 2/1-b"}

setPaperType(type) ==
  /\ isAddModalOpen /\ form.step = 1
  /\ form' = [form EXCEPT !.paperType = type]
  /\ FormStep

PaperLibrary ==
  {[id |-> 1, createdAt |-> 1, keywords |-> <<"waves">>, topics |-> <<>>,
    difficulty |-> "Medium", year |-> "2020", month |-> "May",
    questionNumber |-> "", paperType |-> "Paper 1",
    p1QuestionImage |-> "null", p1AnswerType |-> "Selection",
    p1AnswerSelection |-> "null", p1AnswerImage |-> "null"]}

InitPaper == Loaded({PaperLibrary}, FALSE, MaxClock)

NextPaper ==
  \/ OpenAdd
  \/ \E q \in Range(questions) : OpenEdit(q)
  \/ \E type \in PaperTypes : setPaperType(type)
  \/ nextStep
  \/ Submit
  \/ SettleSave
  \/ OpenTagger
  \/ TaggerSetTargetTopic("B.4")
  \/ TaggerSetKeywordInput("waves")
  \/ TaggerKeywordKeyDown
  \/ TaggerApply
  \/ SettleAutoTag

SpecPaper == InitPaper /\ [][NextPaper]_vars

(***************************************************************************)
(* A reload of the page: the App mounts again (App.tsx, lines 11-47) over  *)
(* the store the last session left, with loadData in flight.               *)
(***************************************************************************)
Remount ==
  /\ inflight = <<>>
  /\ inflight' = <<LoadEntry>>
  /\ questions' = <<>>
  /\ searchQuery' = ""
  /\ includedKeywords' = <<>> /\ excludedKeywords' = <<>>
  /\ includedTopics' = <<>> /\ excludedTopics' = <<>>
  /\ selectedPaperType' = "All" /\ selectedYear' = "All"
  /\ selectedDifficulty' = "All"
  /\ isLoading' = TRUE
  /\ isAddModalOpen' = FALSE /\ isTopicTaggerOpen' = FALSE
  /\ editingQuestion' = Null
  /\ keepMetadata' = FALSE /\ lastUsedMetadata' = Null
  /\ tagger' = InitialTagger
  /\ form' = InitialForm(now)
  /\ UNCHANGED <<dbVars, lastResult, now>>

(***************************************************************************)
(* Clearing the library: a loaded library, the "Clear" button with its two *)
(* confirm dialogs answered either way, and reloads of the page.           *)
(***************************************************************************)
ClearLibraries == {EditLibrary, TagLibrary, PaperLibrary}

InitClear == Loaded(ClearLibraries, FALSE, MaxClock)

NextClear ==
  \/ \E first, second \in BOOLEAN : HandleClear(first, second)
  \/ SettleClear
  \/ Remount
  \/ SettleLoad

SpecClear == InitClear /\ [][NextClear]_vars

(***************************************************************************)
(* The list of the page from its mount: loadData in flight over a stored   *)
(* library, then creates, edits, deletes, auto-tag applications and        *)
(* reloads of the page.                                                    *)
(***************************************************************************)
InitList ==
  /\ dbVersion = DB_VERSION /\ objectStoreNames = {STORE_NAME}
  /\ store = EditLibrary
  /\ inflight = <<LoadEntry>>
  /\ lastResult = NoResult
  /\ questions = <<>>
  /\ InitFilters
  /\ isLoading = TRUE
  /\ isAddModalOpen = FALSE
  /\ isTopicTaggerOpen = FALSE
  /\ editingQuestion = Null
  /\ keepMetadata = FALSE
  /\ lastUsedMetadata = Null
  /\ tagger = InitialTagger
  /\ now = MaxClock
  /\ form = InitialForm(MaxClock)

NextList ==
  \/ SettleLoad
  \/ OpenAdd
  \/ \E q \in Range(questions) : OpenEdit(q)
  \/ nextStep
  \/ Submit
  \/ SettleSave
  \/ \E q \in Range(questions) : HandleDelete(q)
  \/ SettleDelete
  \/ OpenTagger
  \/ TaggerSetTargetTopic("B.4")
  \/ TaggerSetKeywordInput("waves")
  \/ TaggerKeywordKeyDown
  \/ TaggerApply
  \/ SettleAutoTag
  \/ Remount

SpecList == InitList /\ [][NextList]_vars

(***************************************************************************)
(* handleExport (App.tsx, lines 188-196): the download's href, the JSON    *)
(* text of the filtered view behind the data-URI prefix.  The text is held *)
(* as the values a JSON parser reads back from it: JSON has no NaN, and    *)
(* JSON.stringify writes null for it.                                      *)
(***************************************************************************)
JSONStringify(q) ==
  [field \in DOMAIN q |->
     IF field = "year" /\ q[field] = "NaN" THEN "null" ELSE q[field]]

handleExport ==
  [prefix |-> "data:text/json;charset=utf-8,",
   body |-> MapSeq(JSONStringify, filteredQuestions)]

(***************************************************************************)
(* The list's handlers with an engine that raises no fault: every call     *)
(* opens, runs and commits.  What is left is the order in which the user's *)
(* clicks and the settling of the calls in flight interleave.              *)
(***************************************************************************)
\* this step settles nothing, or settles a call that met no fault
FaultFree == lastResult' = lastResult \/ lastResult'.fault = "none"

NextRace ==
  \/ SettleLoad /\ FaultFree
  \/ OpenAdd
  \/ \E q \in Range(questions) : OpenEdit(q)
  \/ nextStep
  \/ Submit
  \/ SettleSave /\ FaultFree
  \/ \E q \in Range(questions) : HandleDelete(q)
  \/ SettleDelete /\ FaultFree
  \/ \E first, second \in BOOLEAN : HandleClear(first, second)
  \/ SettleClear /\ FaultFree
  \/ OpenTagger
  \/ TaggerSetTargetTopic("B.4")
  \/ TaggerSetKeywordInput("waves")
  \/ TaggerKeywordKeyDown
  \/ TaggerApply
  \/ SettleAutoTag /\ FaultFree
  \/ Remount

SpecRace == InitList /\ [][NextRace]_vars

(***************************************************************************)
(* Every control of the sidebar over a loaded library: the tag buttons of  *)
(* both namespaces, the search input and the three selectors.              *)
(***************************************************************************)
\* two records whose keywords and topics give the sidebar two buttons of each
\* kind, one tag being both a keyword and a topic
ControlLibrary ==
  {Tagged(1, <<"waves", "forces">>, <<"waves">>), Tagged(2, <<"waves">>, <<"B.4">>)}

\* a click on a keyword button of the sidebar: allKeywords.map(k => <button>)
ClickKeyword(k) == NoModal /\ k \in allKeywords /\ ToggleKeyword(k)

\* a click on a topic button of the sidebar: allTopics.map(t => <button>)
ClickTopic(t) == NoModal /\ t \in allTopics /\ ToggleTopic(t)

InitControls == Loaded({ControlLibrary}, FALSE, MaxClock)

NextControls ==
  \/ \E k \in KeywordInputs : ClickKeyword(k)
  \/ \E t \in {"B.4", "waves"} : ClickTopic(t)
  \/ \E text \in {"", "waves"} : setSearchQuery(text)
  \/ \E v \in {"All", "Paper 1"} : setSelectedPaperType(v)
  \/ \E value \in {"All"} \cup availableYears : setSelectedYear(value)
  \/ \E v \in {"All", "Medium"} : setSelectedDifficulty(v)

SpecControls == InitControls /\ [][NextControls]_vars

(***************************************************************************)
(* The tag buttons next to the handlers that remove records: Delete on a   *)
(* card and Clear Library, the engine raising no fault.                    *)
(***************************************************************************)
NextButtons ==
  \/ \E k \in KeywordInputs : ClickKeyword(k)
  \/ \E t \in {"B.4", "waves"} : ClickTopic(t)
  \/ \E q \in Range(questions) : HandleDelete(q)
  \/ SettleDelete /\ FaultFree
  \/ \E first, second \in BOOLEAN : HandleClear(first, second)
  \/ SettleClear /\ FaultFree

SpecButtons == InitControls /\ [][NextButtons]_vars

(***************************************************************************)
(* The list's handlers and Clear Library, the engine raising any fault     *)
(* against any call: every writer of the store with its catch branch.      *)
(***************************************************************************)
NextWrites ==
  \/ NextList
  \/ \E first, second \in BOOLEAN : HandleClear(first, second)
  \/ SettleClear

SpecWrites == InitList /\ [][NextWrites]_vars

(***************************************************************************)
(* The parts of a Paper 2/1-b question in AddQuestionModal (lines 132-158, *)
(* 463-550): the tabs, Add Part, the X of the active tab and the label     *)
(* input of the active part.  activePartIndex counts from 0.               *)
(***************************************************************************)
\* the tabbed view is on screen
PartsView ==
  isAddModalOpen /\ form.step = 2 /\ form.paperType = "Paper 2/1-b"

\* parts[activePartIndex] is an element of parts
ActivePartExists ==
  0 <= form.activePartIndex /\ form.activePartIndex < Len(form.parts)

\* the view reads parts[activePartIndex].label while rendering (line 508): with
\* no such element the render throws and React unmounts the App
Crashed == PartsView /\ ~ActivePartExists

\* nextLabelMap[lastLabel] || String.fromCharCode(lastLabel.charCodeAt(0) + 1);
\* of the empty string the char code is NaN and the label is "\u0000"
NextLabel(lastLabel) ==
  CASE lastLabel = "a" -> "b" [] lastLabel = "b" -> "c" [] lastLabel = "c" -> "d"
    [] lastLabel = "d" -> "e" [] lastLabel = "e" -> "f"
    [] lastLabel = "x" -> "y" [] lastLabel = "y" -> "z"
    [] OTHER -> "\\u0000"

handleAddP2Part ==
  /\ PartsView /\ ActivePartExists
  /\ Len(form.parts) < MaxParts
  /\ \E t \in {now, IF now < MaxClock THEN now + 1 ELSE now} :
       LET lastLabel == IF Len(form.parts) > 0
                        THEN form.parts[Len(form.parts)].label ELSE ""
           newPart == [id |-> t, label |-> NextLabel(lastLabel),
                       questionImage |-> "null", answerImage |-> "null"]
       IN /\ now' = t
          /\ form' = [form EXCEPT !.parts = Append(form.parts, newPart),
                                  !.activePartIndex = Len(form.parts)]
  /\ UNCHANGED <<dbVars, queueVars, questions, filterVars, isLoading, modalVars,
                 metaVars, tagger>>

\* the label input of the active part
updatePart(id, value) ==
  /\ PartsView /\ ActivePartExists
  /\ id = form.parts[form.activePartIndex + 1].id
  /\ form' = [form EXCEPT
                !.parts = [i \in DOMAIN form.parts |->
                             IF form.parts[i].id = id
                             THEN [form.parts[i] EXCEPT !.label = value]
                             ELSE form.parts[i]]]
  /\ FormStep

\* removePart: what it leaves of parts and activePartIndex
removePart(parts, activePartIndex, id) ==
  IF Len(parts) > 1
  THEN LET newParts == SelectSeq(parts, LAMBDA p : p.id # id)
       IN [parts |-> newParts,
           activePartIndex |-> IF activePartIndex >= Len(newParts)
                               THEN Len(newParts) - 1 ELSE activePartIndex]
  ELSE [parts |-> parts, activePartIndex |-> activePartIndex]

\* the X of a tab, shown on the active tab when there are several
RemovePart ==
  /\ PartsView /\ ActivePartExists
  /\ Len(form.parts) > 1
  /\ LET r == removePart(form.parts, form.activePartIndex,
                         form.parts[form.activePartIndex + 1].id)
     IN form' = [form EXCEPT !.parts = r.parts,
                             !.activePartIndex = r.activePartIndex]
  /\ FormStep

\* a click on a tab
setActivePartIndex(idx) ==
  /\ PartsView /\ ActivePartExists
  /\ idx \in 0..(Len(form.parts) - 1)
  /\ form' = [form EXCEPT !.activePartIndex = idx]
  /\ FormStep

\* a stored Paper 2/1-b record, as handleSubmit builds it, with one part
PartsLibrary ==
  {[id |-> 1, createdAt |-> 1, keywords |-> <<"waves">>, topics |-> <<>>,
    difficulty |-> "Medium", year |-> "2020", month |-> "May",
    questionNumber |-> "", paperType |-> "Paper 2/1-b",
    parts |-> <<NewPart(1)>>]}

InitParts == Loaded({PaperLibrary, PartsLibrary}, FALSE, MaxClock - 1)

NextParts ==
  \/ OpenAdd
  \/ \E q \in Range(questions) : OpenEdit(q)
  \/ CloseAdd
  \/ \E type \in PaperTypes : setPaperType(type)
  \/ nextStep
  \/ prevStep
  \/ handleAddP2Part
  \/ \E id \in 1..MaxClock : updatePart(id, "x")
  \/ RemovePart
  \/ \E idx \in 0..(MaxParts - 1) : setActivePartIndex(idx)
  \/ Tick

SpecParts == InitParts /\ [][NextParts]_vars

(***************************************************************************)
(* Steps of the store, for the properties below.                           *)
(***************************************************************************)
\* this step settles the oldest operation in flight, and it is an `op`
Settles(op) ==
  /\ inflight # <<>>
  /\ inflight' = Tail(inflight)
  /\ Head(inflight).op = op

\* the settled operation's transaction committed
Committed == lastResult'.fault = "none"

\* `after` is `before` with exactly `q` stored under q.id
Replaces(before, q, after) ==
  /\ q \in after
  /\ \A r \in after : r.id = q.id => r = q
  /\ \A r \in before \cup after : r.id # q.id => (r \in before <=> r \in after)

\* `after` is `before` without the record stored under id
Removes(before, id, after) ==
  /\ \A r \in after : r.id # id
  /\ \A r \in before \cup after : r.id # id => (r \in before <=> r \in after)

\* C1: bulkUpdateQuestions is all-or-nothing: a settled bulk write either
\* resolves with every record of the batch applied, or rejects and leaves the
\* store exactly as it was, whichever record's write failed and however it
\* failed (the engine rejecting the request, or store.put throwing).
C1_BulkAllOrNothing ==
  [][Settles("bulk") =>
       \/ /\ lastResult'.outcome = "resolved"
          /\ store' = PutAll(store, Head(inflight).arg)
       \/ /\ lastResult'.outcome = "rejected"
          /\ store' = store]_vars

\* C7: the store holds at most one record per identifier, and a committed
\* addQuestionToDB(record) leaves exactly `record` under record.id (nothing of
\* the previous record, no second entry) and every other record as it was; a
\* put that does not commit changes nothing.
C7_OneRecordPerId ==
  \A a, b \in store : a.id = b.id => a = b
C7_PutStep ==
  (Settles("put") /\ HasKey(Head(inflight).arg)) =>
     IF Committed
     THEN Replaces(store, Head(inflight).arg, store')
     ELSE store' = store
C7_Upsert == [](C7_OneRecordPerId) /\ [][C7_PutStep]_vars

\* a record was saved over a different record with the same id
C7_Witness ==
  /\ lastResult.op = "put" /\ lastResult.fault = "none"
  /\ \E r \in store : r.id = 1 /\ r.topics = <<"B.4">>
  /\ Cardinality(store) = 2

\* C8: getAllQuestions() returns every record currently stored (each once);
\* a committed addQuestionToDB on the empty store leaves exactly that record;
\* a committed deleteQuestionFromDB(id) removes exactly the record with that
\* id, so that deleting the only record leaves the store empty again.
C8_GetAllStep ==
  (Settles("getAll") /\ lastResult'.outcome = "resolved") =>
     /\ Range(lastResult'.value) = store
     /\ Len(lastResult'.value) = Cardinality(store)
     /\ store' = store
C8_ScenarioStep ==
  /\ (Settles("put") /\ Committed /\ HasKey(Head(inflight).arg) /\ store = {})
        => store' = {Head(inflight).arg}
  /\ (Settles("delete") /\ Committed)
        => Removes(store, Head(inflight).arg, store')
  /\ (Settles("delete") /\ Committed
        /\ \A r \in store : r.id = Head(inflight).arg) => store' = {}
C8_GetAllAndDelete == [][C8_GetAllStep /\ C8_ScenarioStep]_vars

\* getAllQuestions() returned exactly one record, with id 1
C8_Witness ==
  /\ lastResult.op = "getAll" /\ lastResult.outcome = "resolved"
  /\ Len(lastResult.value) = 1
  /\ lastResult.value[1].id = 1

\* what a write does to the store once committed
Effect(e, st) ==
  CASE e.op = "put"    -> Put(st, e.arg)
    [] e.op = "bulk"   -> PutAll(st, e.arg)
    [] e.op = "delete" -> Delete(st, e.arg)
    [] e.op = "clear"  -> {}

\* C9: whenever addQuestionToDB, bulkUpdateQuestions, deleteQuestionFromDB
\* or clearAllQuestions resolves, its effect is committed (the store is the
\* old store with the write applied), and an operation whose transaction
\* aborts, at commit time included, is reported as a rejection.
C9_ResolvedMeansCommitted ==
  [][\A op \in {"put", "bulk", "delete", "clear"} :
       Settles(op) =>
         /\ lastResult'.outcome = "resolved"
              => store' = Effect(Head(inflight), store)
         /\ lastResult'.fault = "commit"
              => lastResult'.outcome = "rejected"]_vars

\* C2: in each namespace, after any sequence of toggles from empty filter
\* lists, no tag is in both the included and the excluded list.
C2_IncludedExcludedDisjoint ==
  /\ Range(includedKeywords) \cap Range(excludedKeywords) = {}
  /\ Range(includedTopics) \cap Range(excludedTopics) = {}

\* tags were moved to the excluded lists while another is included
C2_Witness ==
  /\ "A" \in Range(excludedKeywords)
  /\ "B" \in Range(includedKeywords)
  /\ "B.4" \in Range(excludedTopics)

\* the tri-state cycle
NextTagState(s) ==
  CASE s = "neutral" -> "include"
    [] s = "include" -> "exclude"
    [] s = "exclude" -> "neutral"

\* what one toggle of tag `x` must do to its namespace's lists
TagStep(x, type, included, excluded, includedAfter, excludedAfter) ==
  /\ getTagState(x, type)' = NextTagState(getTagState(x, type))
  /\ x \in Range(included) =>
       x \notin Range(includedAfter) /\ x \in Range(excludedAfter)
  /\ x \in Range(excluded) /\ x \notin Range(included) =>
       x \notin Range(excludedAfter) /\ x \notin Range(includedAfter)
  /\ x \notin Range(included) /\ x \notin Range(excluded) =>
       x \in Range(includedAfter) /\ x \notin Range(excludedAfter)

C3_Step ==
  /\ \A k \in Keywords :
       ToggleKeyword(k) =>
         TagStep(k, "keyword", includedKeywords, excludedKeywords,
                 includedKeywords', excludedKeywords')
  /\ \A t \in FilterTopics :
       ToggleTopic(t) =>
         TagStep(t, "topic", includedTopics, excludedTopics,
                 includedTopics', excludedTopics')

C3_ThreeToggles ==
  /\ \A k \in Keywords :
       getTagState(k, "keyword") = "neutral" =>
         LET s0 == [included |-> includedKeywords, excluded |-> excludedKeywords]
             s1 == toggleKeywordFilter(s0.included, s0.excluded, k)
             s2 == toggleKeywordFilter(s1.included, s1.excluded, k)
             s3 == toggleKeywordFilter(s2.included, s2.excluded, k)
         IN s3 = s0 /\ s1 # s0 /\ s2 # s0 /\ s2 # s1
  /\ \A t \in FilterTopics :
       getTagState(t, "topic") = "neutral" =>
         LET s0 == [included |-> includedTopics, excluded |-> excludedTopics]
             s1 == toggleTopicFilter(s0.included, s0.excluded, t)
             s2 == toggleTopicFilter(s1.included, s1.excluded, t)
             s3 == toggleTopicFilter(s2.included, s2.excluded, t)
         IN s3 = s0 /\ s1 # s0 /\ s2 # s0 /\ s2 # s1

\* C3: each toggle moves the tag one step along neutral -> include ->
\* exclude -> neutral (included: removed from included, added to excluded;
\* excluded: removed from excluded; neutral: added to included), and three
\* toggles of a neutral tag leave both lists as they started.
C3_TriStateCycle == [][C3_Step]_vars /\ [](C3_ThreeToggles)

\* a tag two toggles away from neutral, beside an included one
C3_Witness ==
  /\ getTagState("A", "keyword") = "exclude"
  /\ getTagState("B", "keyword") = "include"
  /\ getTagState("C", "keyword") = "neutral"
  /\ getTagState("B.4", "topic") = "include"

\* the keyword constraints as the specification states them, on sets
KeywordLaw(q) ==
  LET K == Range(q.keywords)
      I == Range(includedKeywords)
      X == Range(excludedKeywords)
  IN /\ I = {} \/ I \subseteq K
     /\ X = {} \/ K \cap X = {}

passesKeywords(q) == matchesIncludedKeywords(q) /\ matchesExcludedKeywords(q)

\* C4: a record passes the keyword constraints iff (no keyword is included or
\* every included keyword is on the record) and (no keyword is excluded or
\* none of the record's keywords is excluded); with {A,B} included and {C}
\* excluded, {A,B,D} passes, {A} fails and {A,B,C} fails.
C4_KeywordFilter ==
  \A i \in DOMAIN questions :
    LET q == questions[i]
        K == Range(q.keywords)
    IN /\ passesKeywords(q) <=> KeywordLaw(q)
       /\ q \in Range(filteredQuestions) => KeywordLaw(q)
       /\ (includedTopics = <<>> /\ excludedTopics = <<>>) =>
            (q \in Range(filteredQuestions) <=> KeywordLaw(q))
       /\ (Range(includedKeywords) = {"A", "B"} /\ Range(excludedKeywords) = {"C"}) =>
            /\ K = {"A", "B", "D"} => passesKeywords(q)
            /\ K = {"A"} => ~passesKeywords(q)
            /\ K = {"A", "B", "C"} => ~passesKeywords(q)

\* A and B included, C excluded: the record with A, B, D is shown, the one
\* with A alone is not
C4_Witness ==
  /\ includedKeywords = <<"A", "B">>
  /\ excludedKeywords = <<"C">>
  /\ questions[2].keywords = <<"A", "B", "D">>
  /\ filteredQuestions = <<questions[2]>>

(***************************************************************************)
(* The auto-tag rule (SpecTagger).                                         *)
(***************************************************************************)
\* `batch` is what the rule (triggers, target) must produce from `library`:
\* one record for each record that shares a keyword with the triggers and
\* lacks the target, in the library's order, its topics the old topics with
\* the target appended
RuleYields(batch, library, target, triggers) ==
  LET sel == {i \in DOMAIN library :
                /\ Range(library[i].keywords) \cap Range(triggers) # {}
                /\ target \notin Range(TopicsOf(library[i]))}
      \* how many selected records come at or before position i
      rank(i) == Cardinality({k \in sel : k <= i})
  IN /\ Len(batch) = Cardinality(sel)
     /\ \A i \in sel :
          /\ batch[rank(i)].id = library[i].id
          /\ batch[rank(i)].topics = TopicsOf(library[i]) \o <<target>>

\* whatever the library and the rule entered, the Apply button's batch is the
\* rule's
C5_Selection ==
  tagger.targetTopic # ""
    => RuleYields(handleApply(questions, tagger.targetTopic, tagger.keywords),
                  questions, tagger.targetTopic, tagger.keywords)

\* Apply hands exactly that batch to the bulk write
C5_ApplyStep ==
  TaggerApply
    => RuleYields(inflight'[Len(inflight')].arg, questions,
                  tagger.targetTopic, tagger.keywords)

\* the example: {keywords: [waves], topics: []} and {keywords: [forces]}
C5_Example == <<Legacy(MaxId, <<"forces">>), Tagged(1, <<"waves">>, <<>>)>>

C5_ExampleStep ==
  /\ questions = C5_Example
  /\ Oldest("handleAutoTag")
  /\ Head(inflight).rule = [targetTopic |-> "B.4", keywords |-> <<"waves">>]
  /\ lastResult'.outcome = "resolved"
  => questions' = <<Legacy(MaxId, <<"forces">>),
                    Tagged(1, <<"waves">>, <<"B.4">>)>>

\* C5: the auto-tag rule selects exactly the in-memory records that contain at
\* least one trigger keyword and lack the target topic, and produces for each
\* the record with the target topic appended to its topic list; in the example
\* only the first record's topics become [B.4].
C5_AutoTagSelection ==
  [](C5_Selection) /\ [][C5_ApplyStep /\ C5_ExampleStep]_vars

\* the example's rule has been applied to the example's library
C5_Witness ==
  /\ questions = <<Legacy(MaxId, <<"forces">>),
                   Tagged(1, <<"waves">>, <<"B.4">>)>>
  /\ store = Range(questions)
  /\ lastResult.op = "bulk"
  /\ lastResult.outcome = "resolved"
  /\ tagger = [targetTopic |-> "B.4", keywords |-> <<"waves">>,
               keywordInput |-> ""]

(***************************************************************************)
(* Auto-tag through handleAutoTag (SpecAutoTag), and the identifiers of    *)
(* created records (Spec).                                                 *)
(***************************************************************************)
\* this step is handleAutoTag's continuation after a bulk write that resolved
AutoTagApplied == SettleAutoTag /\ lastResult'.outcome = "resolved"

\* C6: auto-tag is idempotent: once a rule (trigger keywords, target topic) has
\* been applied successfully through handleAutoTag, the same rule matches none
\* of the in-memory records, so applying it again changes no topic list.
C6_AutoTagIdempotent ==
  [][AutoTagApplied
       => affectedQuestions(questions', Head(inflight).rule.targetTopic,
                            Head(inflight).rule.keywords) = <<>>]_vars

\* this step settles the save of a form submitted without an initialQuestion,
\* and its write is committed
CreateCommitted ==
  SettleSave /\ Head(inflight).create /\ lastResult'.fault = "none"

\* C10: a record created through the form gets a fresh identifier: its id is
\* the id of no record already in the store, so every record stored before
\* the create is still stored, unchanged, after it.
C10_CreateIsFresh ==
  [][CreateCommitted
       => /\ Head(inflight).arg.id \notin {r.id : r \in store}
          /\ store \subseteq store']_vars

(***************************************************************************)
(* Years of stored records (SpecYear).                                     *)
(***************************************************************************)
\* the integers a year takes here
YearNumbers == {"2020", "2024", "2026"}

\* C11: every record that reaches the store through the form has a year that
\* is a valid integer or the Unknown sentinel, never the not-a-number value
\* parseInt gives for an empty year input.
C11_StoredYearValid ==
  \A r \in store : r.year \in YearNumbers \cup {"Unknown"}

(***************************************************************************)
(* The selectors (SpecSelect).                                             *)
(***************************************************************************)
\* the selector is All or is the record's value
Selects(selector, value) == selector = "All" \/ selector = value

\* C12: with no other constraint set, a record is in the view iff each of the
\* paperType, year and difficulty selectors is All or exactly the record's
\* value; a record with year Unknown matches no integer selector and a record
\* with an integer year does not match the selector Unknown.
C12_SelectorLaw ==
  \A i \in DOMAIN questions :
    LET q == questions[i]
    IN /\ q \in Range(filteredQuestions)
            <=> /\ Selects(selectedPaperType, q.paperType)
                /\ Selects(selectedYear, q.year)
                /\ Selects(selectedDifficulty, q.difficulty)
       /\ q.year = "Unknown" /\ selectedYear \in YearNumbers
            => q \notin Range(filteredQuestions)
       /\ q.year \in YearNumbers /\ selectedYear = "Unknown"
            => q \notin Range(filteredQuestions)

(***************************************************************************)
(* The topic filter (SpecTopics).                                          *)
(***************************************************************************)
\* the law of the claim, on the record's topics as a set (none when the
\* record has no topics field)
TopicLaw(q) ==
  LET T == IF "topics" \in DOMAIN q THEN Range(q.topics) ELSE {}
      I == Range(includedTopics)
      X == Range(excludedTopics)
  IN /\ I = {} \/ I \subseteq T
     /\ X = {} \/ T \cap X = {}

\* C13: topic filtering has the semantics of keyword filtering: a record
\* passes the topic constraints iff (no topic is included or every included
\* topic is on the record) and (no topic is excluded or none of the record's
\* topics is excluded), a record without a topics field having no topics.
C13_TopicFilter ==
  \A i \in DOMAIN questions :
    LET q == questions[i]
    IN /\ (matchesIncludedTopics(q) /\ matchesExcludedTopics(q)) <=> TopicLaw(q)
       /\ q \in Range(filteredQuestions) <=> TopicLaw(q)

\* B.4 and A.1 included, C.2 excluded: the record with B.4 and A.1 is shown,
\* the one with B.4 alone is not
C13_Witness ==
  /\ includedTopics = <<"B.4", "A.1">>
  /\ excludedTopics = <<"C.2">>
  /\ TopicsOf(questions[2]) = <<"B.4", "A.1">>
  /\ filteredQuestions = <<questions[2]>>

(***************************************************************************)
(* Free-text search (SpecSearch).                                          *)
(***************************************************************************)
\* sub occurs in cs as a run of consecutive characters
IsSubstring(sub, cs) ==
  \E first \in 1..(Len(cs) - Len(sub) + 1) :
    SubSeq(cs, first, first + Len(sub) - 1) = sub

\* the texts of a record the search looks at
SearchedTexts(q) ==
  Range(q.keywords)
    \cup (IF "topics" \in DOMAIN q THEN Range(q.topics) ELSE {})
    \cup (IF "questionNumber" \in DOMAIN q THEN {q.questionNumber} ELSE {})

\* C14: a record passes the search iff the query is empty or the lower-cased
\* query is a substring of the lower-cased form of one of the record's
\* keywords, one of its topics, or its question-number label.
C14_SearchLaw ==
  \A i \in DOMAIN questions :
    LET q == questions[i]
        law == \/ searchQuery = ""
               \/ \E text \in SearchedTexts(q) :
                    IsSubstring(ToLowerCase(searchQuery), ToLowerCase(text))
    IN /\ matchesSearch(q) <=> law
       /\ q \in Range(filteredQuestions) <=> law

\* the query "A" finds the record with the keyword "Waves" and the one with
\* the topic "A.1"
C14_Witness ==
  /\ searchQuery = "A"
  /\ questions[2].keywords = <<"Waves">>
  /\ filteredQuestions = questions


\* a list without a repeated entry, entries compared exactly
NoDuplicates(s) == \A i, j \in DOMAIN s : s[i] = s[j] => i = j

\* C15: in every record of the store, whatever the form's edits (typed tags,
\* picked suggestions, removed tags, metadata kept from the last save), the
\* saves and the auto-tag applications that came before, the keyword list has
\* no repeated entry and the topic list has no repeated entry
C15_NoDuplicateTags ==
  \A r \in store : NoDuplicates(r.keywords) /\ NoDuplicates(TopicsOf(r))

\* a record created in the form with a keyword and a topic, its metadata kept
\* for the next form, next to a record the auto-tag rule gave the topic
C15_Witness ==
  /\ lastUsedMetadata # Null
  /\ \E r \in store :
       /\ r.id = MaxClock
       /\ "waves" \in Range(r.keywords)
       /\ "B.4" \in Range(TopicsOf(r))
  /\ \E r \in store : r.id = 1 /\ TopicsOf(r) = <<"B.4">>


(***************************************************************************)
(* The frame of an auto-tag application (SpecEditTag).                     *)
(***************************************************************************)
\* the rule (trigger keywords, target topic) selects this record
Qualifies(q, rule) ==
  affectedQuestions(<<q>>, rule.targetTopic, rule.keywords) # <<>>

\* what an application of the rule may leave of record q: q itself or, if q
\* qualifies, q with the target topic appended to its topics
Retagged(q, rule) ==
  {q} \cup (IF Qualifies(q, rule) THEN {WithTopic(q, rule.targetTopic)} ELSE {})

\* C16: an auto-tag application changes nothing but the topic list of
\* qualifying records: in the store and in memory each record keeps its id,
\* createdAt, keywords, existing topics in order and every other field, gaining
\* at most the target topic, and a record that does not qualify is unchanged
C16_AutoTagFrame ==
  [][SettleAutoTag
       => LET rule == Head(inflight).rule
          IN /\ {r.id : r \in store'} = {r.id : r \in store}
             /\ \A r \in store : \E r2 \in store' :
                  r2.id = r.id /\ r2 \in Retagged(r, rule)
             /\ Len(questions') = Len(questions)
             /\ \A i \in DOMAIN questions :
                  questions'[i] \in Retagged(questions[i], rule)]_vars


(***************************************************************************)
(* The tagger with an empty rule (SpecTagger).                             *)
(***************************************************************************)
\* the rule in the tagger has no trigger keyword or no target topic
EmptyRule == tagger.targetTopic = "" \/ tagger.keywords = <<>>

\* C17: if the trigger keyword set is empty or the target topic is empty, the
\* qualifying set is empty and Apply cannot be clicked: no record is updated,
\* no bulk write is issued and no error is raised; every bulk write that
\* handleAutoTag has in flight carries a rule with a target and a trigger and
\* at least one record
C17_EmptyRuleIsNoOp ==
  /\ EmptyRule =>
       /\ affectedQuestions(questions, tagger.targetTopic, tagger.keywords) = <<>>
       /\ ~ENABLED TaggerApply
  /\ \A i \in DOMAIN inflight :
       inflight[i].who = "handleAutoTag" =>
         /\ inflight[i].rule.targetTopic # ""
         /\ inflight[i].rule.keywords # <<>>
         /\ inflight[i].arg # <<>>

\* the tagger is open with a trigger keyword and no target topic, over a
\* library where a record has that keyword
C17_Witness ==
  /\ isTopicTaggerOpen
  /\ tagger.targetTopic = ""
  /\ tagger.keywords = <<"waves">>
  /\ \E i \in DOMAIN questions : "waves" \in Range(questions[i].keywords)
  /\ inflight = <<>>


(***************************************************************************)
(* Deleting an id that is not stored (SpecStore).                          *)
(***************************************************************************)
\* this step settles a deleteQuestionFromDB(id) with no record under id
DeletesMissing ==
  Settles("delete") /\ Head(inflight).arg \notin {r.id : r \in store}

\* C18: deleteQuestionFromDB(id) for an id that is not in the store leaves the
\* store as it was, and it resolves: it rejects only when the engine fails to
\* open the database or fails the request, never because the id is missing
C18_DeleteMissing ==
  [][DeletesMissing
       => /\ store' = store
          /\ lastResult'.fault \notin {"open", "request"}
               => lastResult'.outcome = "resolved"]_vars

\* a delete resolved and committed with every id a record can have still
\* stored: the id it was given was not in the store
C18_Witness ==
  /\ lastResult.op = "delete"
  /\ lastResult.outcome = "resolved" /\ lastResult.fault = "none"
  /\ {r.id : r \in store} = Ids


(***************************************************************************)
(* The payload of stored records (SpecPaper).                              *)
(***************************************************************************)
P1Fields ==
  {"p1QuestionImage", "p1AnswerType", "p1AnswerSelection", "p1AnswerImage"}

\* q carries the payload of its paper type and nothing of the other one
OnePayload(q) ==
  IF q.paperType = "Paper 1"
  THEN P1Fields \subseteq DOMAIN q /\ "parts" \notin DOMAIN q
  ELSE /\ q.paperType = "Paper 2/1-b"
       /\ "parts" \in DOMAIN q
       /\ P1Fields \cap DOMAIN q = {}

\* C19: every record in the store has exactly one payload variant, the one of
\* its paperType: a Paper 1 record carries the p1 fields and no parts, a
\* Paper 2/1-b record carries parts and no p1 fields, after any creates, edits
\* that switch the paper type, and auto-tag applications
C19_OnePayload == \A r \in store : OnePayload(r)

\* the Paper 1 record was edited into a Paper 2/1-b record and auto-tagged,
\* next to a record created since
C19_Witness ==
  /\ \E r \in store :
       r.id = 1 /\ r.paperType = "Paper 2/1-b" /\ r.topics = <<"B.4">>
  /\ Cardinality(store) = 2


(***************************************************************************)
(* Failures of the store as its callers see them (SpecStore).              *)
(***************************************************************************)
\* the engine failed this operation: the open or the request failed, or the
\* transaction of a write failed to commit
Failed(op, fault) ==
  fault \in {"open", "request"} \/ (op # "getAll" /\ fault = "commit")

\* C20: store-layer failures propagate to the caller: whichever operation is
\* settled (fetch, single upsert, bulk write, delete, clear), a failure of the
\* engine to open the database, to serve the request or to commit what was
\* written is reported to the caller as a rejection, and a failure to open
\* rejects every operation with the store untouched
C20_FailuresPropagate ==
  [][\A op \in {"getAll", "put", "bulk", "delete", "clear"} :
       Settles(op) =>
         /\ Failed(op, lastResult'.fault) => lastResult'.outcome = "rejected"
         /\ lastResult'.fault = "open" => store' = store]_vars


(***************************************************************************)
(* Clearing the library (SpecClear).                                       *)
(***************************************************************************)
\* this step starts a clearAllQuestions call
StartsClear ==
  /\ Len(inflight') = Len(inflight) + 1
  /\ inflight'[Len(inflight')].op = "clear"

\* the user declined one of the two confirm dialogs of handleClearLibrary
DeclinesClear ==
  \E first, second \in BOOLEAN : ~(first /\ second) /\ HandleClear(first, second)

C21_ClearStep ==
  /\ (Settles("clear") /\ Committed) => store' = {}
  /\ (Settles("getAll") /\ lastResult'.outcome = "resolved" /\ store = {})
        => lastResult'.value = <<>>
  /\ StartsClear => questions # <<>>
  /\ DeclinesClear => UNCHANGED <<store, questions, inflight>>

\* C21: a committed clearAllQuestions() removes every record, so that a later
\* getAllQuestions() returns nothing; handleClearLibrary calls it only with a
\* non-empty library in memory and both confirmations accepted, and declining
\* either confirmation leaves the store and the in-memory records unchanged
C21_ClearLibrary ==
  /\ [](\A i \in DOMAIN inflight :
          inflight[i].op = "clear" => inflight[i].confirms = <<TRUE, TRUE>>)
  /\ [][C21_ClearStep]_vars

\* the page was reloaded after a clear: the load found the store empty
C21_Witness ==
  /\ store = {} /\ questions = <<>>
  /\ lastResult.op = "getAll" /\ lastResult.outcome = "resolved"
  /\ lastResult.value = <<>>
  /\ inflight = <<>>


(***************************************************************************)
(* The order of the list (SpecList).                                       *)
(***************************************************************************)
\* createdAt never increases along the list
NewestFirst(list) ==
  \A i, j \in DOMAIN list : i < j => list[i].createdAt >= list[j].createdAt

\* C22: the presented list is newest-created first: after the initial load
\* and after any saves, edits, auto-tag applications and deletes, the filtered
\* view (and the in-memory list it is taken from) is ordered by createdAt
\* descending
C22_NewestFirst == NewestFirst(questions) /\ NewestFirst(filteredQuestions)

\* a record was created and the older record auto-tagged, and a reload of
\* the page has loaded both, stored oldest first, into the list
C22_Witness ==
  /\ lastResult.op = "getAll" /\ lastResult.outcome = "resolved"
  /\ Len(lastResult.value) = 2
  /\ lastResult.value[1].id = 1
  /\ Len(questions) = 2
  /\ questions[1].id = MaxClock
  /\ questions[2].id = 1
  /\ TopicsOf(questions[2]) = <<"B.4">>


C24_OneInFlight == Len(inflight) <= 1


(***************************************************************************)
(* Opening the database (SpecStore).                                       *)
(***************************************************************************)
\* this step settles an operation, whose first act was an initDB call
Opens == inflight # <<>> /\ inflight' = Tail(inflight)

\* opening an opened database again changes nothing of it
OpenIsIdempotent ==
  \A version \in 0..DB_VERSION, names \in SUBSET {STORE_NAME} :
    LET d == initDB(version, names, NoFault)
    IN initDB(d.version, d.names, NoFault) = d

C25_OpenStep ==
  Opens =>
    /\ objectStoreNames \subseteq objectStoreNames'
    /\ STORE_NAME \in objectStoreNames => objectStoreNames' = objectStoreNames
    /\ lastResult'.fault # "open"
         => dbVersion' = DB_VERSION /\ STORE_NAME \in objectStoreNames'
    /\ (Head(inflight).op = "getAll" \/ lastResult'.fault = "open")
         => store' = store

\* C25: opening the store is idempotent and loses no data: initDB creates the
\* questions keyspace when, and only when, it does not exist, an open that
\* succeeds leaves the database at the current version with the keyspace, and
\* the initDB call of an operation leaves the stored records unchanged (a
\* fetch, which does nothing else, never changes the store), the first open
\* that runs the upgrade included
C25_OpenKeepsRecords ==
  /\ [](OpenIsIdempotent)
  /\ [](dbVersion = DB_VERSION => STORE_NAME \in objectStoreNames)
  /\ [][C25_OpenStep]_vars

\* a fetch opened the database over stored records and returned all of them
C25_Witness ==
  /\ lastResult.op = "getAll" /\ lastResult.outcome = "resolved"
  /\ dbVersion = DB_VERSION
  /\ store # {}
  /\ Range(lastResult.value) = store


(***************************************************************************)
(* The frame of the sidebar's controls (SpecControls).                     *)
(***************************************************************************)
\* the classification of a tag by an included and an excluded list
Classify(included, excluded, tag) ==
  IF tag \in Range(included) THEN "include"
  ELSE IF tag \in Range(excluded) THEN "exclude" ELSE "neutral"

\* the tags either namespace can hold here
ControlTags == KeywordInputs \cup {"B.4"}

C26_ToggleStep ==
  /\ \A k \in ControlTags :
       ToggleKeyword(k) =>
         /\ UNCHANGED <<includedTopics, excludedTopics>>
         /\ \A other \in ControlTags \ {k} :
              Classify(includedKeywords', excludedKeywords', other)
                = Classify(includedKeywords, excludedKeywords, other)
  /\ \A t \in ControlTags :
       ToggleTopic(t) =>
         /\ UNCHANGED <<includedKeywords, excludedKeywords>>
         /\ \A other \in ControlTags \ {t} :
              Classify(includedTopics', excludedTopics', other)
                = Classify(includedTopics, excludedTopics, other)
  /\ UNCHANGED <<questions, store>>

\* C26: tag toggling is independent per namespace and per tag:
\* toggleKeywordFilter(k) leaves the topic lists unchanged and the
\* classification of every other keyword unchanged, and symmetrically for
\* toggleTopicFilter; no toggle, search or selector change modifies the
\* in-memory records or the store
C26_ControlsFrame == [][C26_ToggleStep]_vars

\* the same tag is included as a keyword and excluded as a topic, next to an
\* excluded keyword, with a search text and a selector set
C26_Witness ==
  /\ includedKeywords = <<"waves">>
  /\ excludedKeywords = <<"forces">>
  /\ excludedTopics = <<"waves">>
  /\ searchQuery = "waves"
  /\ selectedPaperType = "Paper 1"


(***************************************************************************)
(* The records in memory against the store, no fault raised (SpecRace).    *)
(***************************************************************************)
\* C27: for every interleaving of the initial load, saves, auto-tag bulk
\* writes, deletes and clears, once no operation is in flight the records in
\* memory equal the store's contents as a map from id to record: a deleted
\* record is not put back by a bulk write computed from an older snapshot, and
\* a completed save is not overwritten by a late load result
C27_CacheAgrees ==
  inflight = <<>> =>
    /\ Range(questions) = store
    /\ \A i, j \in DOMAIN questions :
         questions[i].id = questions[j].id => i = j


(***************************************************************************)
(* Failed writes and the state in memory (SpecWrites).                     *)
(***************************************************************************)
\* this step settles a write of the given kind
SettlesWrite(op) ==
  /\ inflight # <<>> /\ inflight' = Tail(inflight)
  /\ Head(inflight).op = op

\* what a handler whose write failed leaves behind
LeftAsWas(op) ==
  /\ questions' = questions
  /\ op = "put" => lastUsedMetadata' = lastUsedMetadata
  /\ op = "bulk" => isTopicTaggerOpen' = isTopicTaggerOpen
  /\ inflight' = <<>> => ~isLoading'

\* the handlers' catch branches: a write that rejects leaves memory as it was
C28_RejectedStep ==
  \A op \in {"put", "bulk", "delete", "clear"} :
    SettlesWrite(op) /\ lastResult'.outcome = "rejected" => LeftAsWas(op)

C29_FilterTagsKnown ==
  /\ Range(includedKeywords) \cup Range(excludedKeywords) \subseteq allKeywords
  /\ Range(includedTopics) \cup Range(excludedTopics) \subseteq allTopics


(***************************************************************************)
(* The parts list and the active tab of the form (SpecParts).              *)
(***************************************************************************)
\* C30: after any sequence of handleAddP2Part, removePart, updatePart and tab
\* selections, parts added at the same clock value and edits of stored records
\* included, the parts list is never empty and
\* 0 <= activePartIndex < parts.length
C30_PartsInRange == Len(form.parts) >= 1 /\ ActivePartExists

====
